---- MODULE Spec2Model ----
(***************************************************************************)
(* SmartMeet: the signaling relay (backend/socket/socketHandler.js), the   *)
(* in-memory session store (backend/utils/meetingStore.js), the HTTP       *)
(* meeting controller (backend/controllers/meetingController.js) and the   *)
(* peer-connection life cycle of the browser client (VideoCall component). *)
(*                                                                         *)
(* Strings that the code compares with < (socket ids) are sequences of     *)
(* code units; every other identifier is opaque.                           *)
(***************************************************************************)
EXTENDS Integers, Sequences, FiniteSets, TLC

\* ------------------------------------------------------------------ bounds
\* number of transport connections the relay is followed through on its own
NumConns == 2
\* number of socket ids there are to hand out
NumIds == 3
\* longest socket id whose comparisons are enumerated
MaxIdLen == 2
\* longest activity log a run is followed to
MaxLog == 2
\* longest chat history a run is followed to
MaxChat == 1
\* options of a poll
NumOptions == 2
\* longest text of a transcript event
MaxText == 2
\* events a run is followed for from logs that are about to be full
MaxEvents == 2
\* API keys the summary service may be configured with
MaxKeys == 2
\* events a client is followed through
MaxArrivals == 4

\* ------------------------------------------------------- program constants
\* InMemoryMeeting.addActivity keeps the last 500 entries
ActivityCap == 500
\* InMemoryMeeting.addTranscript keeps the last 1000 entries
TranscriptCap == 1000
\* GeminiService.modelNames: the primary model and two fallbacks
ModelCount == 3
\* executeWithFallback(operation, maxRetries = 3)
MaxRetries == 3
\* InMemoryMeeting.addMessage keeps the last 500 messages
MessageCap == 500

\* --------------------------------------------------------------- identifiers
\* The socket ids handed out, as strings of code units.  IdOf enumerates
\* short strings in an order that is not the lexicographic one and contains
\* proper prefixes, so that both outcomes of every comparison occur.
IdOf(i) ==
    CASE i = 1 -> <<2>>
      [] i = 2 -> <<1, 2>>
      [] i = 3 -> <<1>>
      [] i = 4 -> <<3>>
      [] i = 5 -> <<2, 1>>
      [] OTHER -> <<3, i>>

ConnIds == { IdOf(i) : i \in 1..NumIds }
\* the user ids that occur in payloads: the meeting's host and another user
HostUser == "host"
GuestUser == "guest"
Users == {HostUser, GuestUser}
NoUser == "-"
\* the id of the one meeting that was created, and an id nothing was created for
MeetingIds == {"M", "X"}
\* null / undefined / '' (all falsy in the guards of the code)
Null == <<>>
NoSession == [userId |-> NoUser, meetingId |-> "-"]

StrLessFirstUnit(a, b) == a # <<>> /\ b # <<>> /\ Head(a) < Head(b)

\* a < b on JavaScript strings: code unit by code unit, a proper prefix first
RECURSIVE StrLess(_, _)
StrLess(a, b) ==
    IF b = <<>> THEN FALSE
    ELSE IF a = <<>> THEN TRUE
    ELSE IF Head(a) = Head(b) THEN StrLess(Tail(a), Tail(b))
    ELSE Head(a) < Head(b)

\* ------------------------------------------------------------------- state
VARIABLES
    connected,      \* socket ids of the live transport connections
    usedIds,        \* socket ids handed out so far (an id is never reused)
    room,           \* members of the socket.io room of meeting "M"
    activeSockets,  \* socketHandler's activeSockets map: socket id -> session
    resident,       \* MeetingStore.meetings has "M"
    meeting,        \* the InMemoryMeeting of "M" (meaningful when resident)
    dbActive,       \* the durable record of "M" is active
    branch,         \* the branch the handler of the last step took, for join-meeting and
                    \* the host controls ("-": another handler, or nothing found)
    emitted         \* what that handler emitted, in order

serverVars == <<connected, usedIds, room, activeSockets, resident, meeting,
                dbActive, branch, emitted>>

\* ------------------------------------------------------ InMemoryMeeting
\* the title in the durable record of "M"
StoredTitle == "standup"

FreshMeeting == [host |-> HostUser, title |-> StoredTitle, isActive |-> TRUE,
                 participants |-> <<>>,
                 activities |-> <<>>, messages |-> <<>>, transcript |-> <<>>]

NewParticipant(userId, socketId) ==
    [userId |-> userId, socketId |-> socketId, isAudioMuted |-> FALSE,
     isVideoOff |-> FALSE, isHandRaised |-> FALSE, isScreenSharing |-> FALSE]

\* index of the first entry of userId, 0 when there is none
RECURSIVE FindIndex(_, _, _)
FindIndex(ps, userId, i) ==
    IF i > Len(ps) THEN 0
    ELSE IF ps[i].userId = userId THEN i
    ELSE FindIndex(ps, userId, i + 1)

GetParticipant(m, userId) == FindIndex(m.participants, userId, 1)

\* a log that only grows
AddActivityUnbounded(m, type, userId) ==
    [m EXCEPT !.activities = Append(@, type)]

\* addActivity (an entry of the log is modelled by its type)
AddActivity(m, type, userId) ==
    LET pushed == Append(m.activities, type)
    IN  [m EXCEPT !.activities =
            IF Len(pushed) > ActivityCap THEN Tail(pushed) ELSE pushed]

AddParticipantKeepingOld(m, userId, socketId) ==
    AddActivity(
        [m EXCEPT !.participants = Append(@, NewParticipant(userId, socketId))],
        "join", userId)

AddParticipant(m, userId, socketId) ==
    AddActivity(
        [m EXCEPT !.participants =
            Append(SelectSeq(@, LAMBDA p : p.userId # userId),
                   NewParticipant(userId, socketId))],
        "join", userId)

\* a removal that logs the leave whether or not there was an entry
RemoveParticipantAlwaysLogging(m, userId) ==
    [AddActivity(m, "leave", userId) EXCEPT !.participants =
        SelectSeq(@, LAMBDA p : p.userId # userId)]

RemoveParticipant(m, userId) ==
    LET logged == IF GetParticipant(m, userId) # 0
                  THEN AddActivity(m, "leave", userId) ELSE m
    IN  [logged EXCEPT !.participants =
            SelectSeq(@, LAMBDA p : p.userId # userId)]

\* a rebinding that rebuilds the entry instead of assigning into it
UpdateSocketIdRebuilding(m, userId, socketId) ==
    LET i == GetParticipant(m, userId)
    IN  IF i = 0 THEN m
        ELSE [m EXCEPT !.participants[i] = NewParticipant(userId, socketId)]

\* updateParticipant(userId, { socketId })
UpdateSocketId(m, userId, socketId) ==
    LET i == GetParticipant(m, userId)
    IN  IF i = 0 THEN m
        ELSE [m EXCEPT !.participants[i].socketId = socketId]

\* updateParticipant(userId, { isAudioMuted })
UpdateAudioMuted(m, userId, muted) ==
    LET i == GetParticipant(m, userId)
    IN  IF i = 0 THEN m
        ELSE LET logged == IF m.participants[i].isAudioMuted # muted
                           THEN AddActivity(m, IF muted THEN "mute" ELSE "unmute", userId)
                           ELSE m
             IN  [logged EXCEPT !.participants[i].isAudioMuted = muted]

\* a full history that turns the newcomer away
AddMessageKeepingOldest(m, message) ==
    [m EXCEPT !.messages =
        IF Len(@) >= MessageCap THEN @ ELSE Append(@, message)]

\* addMessage: push, then drop the oldest entry once the cap is exceeded
AddMessage(m, message) ==
    LET pushed == Append(m.messages, message)
    IN  [m EXCEPT !.messages =
            IF Len(pushed) > MessageCap THEN Tail(pushed) ELSE pushed]

\* ---------------------------------------------------------- MeetingStore
\* getMeeting: the resident meeting, else a fresh shell when the durable
\* record is active, else nothing.  (Lookups do not overlap here.)
FoundResidentOnly(mid) == mid = "M" /\ resident

Found(mid) == mid = "M" /\ (resident \/ dbActive)
\* a store that hands out a new shell in the place of an ended meeting
ResolvedReloading(mid) == IF resident /\ meeting.isActive THEN meeting ELSE FreshMeeting

Resolved(mid) == IF resident THEN meeting ELSE FreshMeeting

\* ------------------------------------------------------------ emissions
Msg(ev, to, userId, socketId, roster) ==
    [ev |-> ev, to |-> to, userId |-> userId, socketId |-> socketId, roster |-> roster]

RosterEntry(p) == [socketId |-> p.socketId, userId |-> p.userId,
                   isAudioMuted |-> p.isAudioMuted, isVideoOff |-> p.isVideoOff,
                   isHandRaised |-> p.isHandRaised, isScreenSharing |-> p.isScreenSharing]

RECURSIVE MapRoster(_)
MapRoster(ps) == IF ps = <<>> THEN <<>> ELSE <<RosterEntry(Head(ps))>> \o MapRoster(Tail(ps))

\* the participants sent to a joiner: those with a socket id other than its own
RosterFor(m, c) ==
    MapRoster(SelectSeq(m.participants, LAMBDA p : p.socketId # Null /\ p.socketId # c))

\* the step keeps the activity log within the length runs are followed to,
\* or it works on a log that is about to be full
LogRoom ==
    \/ Len(meeting'.activities) <= MaxLog
    \/ Len(meeting.activities) >= ActivityCap - 1

ServerInit ==
    /\ connected = {}
    /\ usedIds = {}
    /\ room = {}
    /\ activeSockets = [c \in ConnIds |-> NoSession]
    /\ resident \in BOOLEAN
    /\ dbActive \in BOOLEAN
    /\ resident => dbActive
    /\ meeting = FreshMeeting
    /\ branch = "-"
    /\ emitted = <<>>

\* ---------------------------------------------------- socket.io plumbing
\* socket.emit(...)
ToSelf(c) == {c}
\* socket.to(meetingId).emit(...): the room without the sending socket
ToRoomExcept(members, c) == members \ {c}
ToSocketUnchecked(socketId) == {socketId}

\* io.to(socketId).emit(...): the socket's own room, which exists while it is connected
ToSocket(socketId) == {socketId} \cap connected

\* getMeeting's side effect: a meeting loaded from the durable record stays resident
Install(found, m) ==
    /\ resident' = (resident \/ found)
    /\ meeting' = IF found THEN m ELSE meeting

\* a new transport connection (io.on('connection')) under a socket id
\* that was never used
Accept(c) ==
    /\ c \in ConnIds \ usedIds
    /\ connected' = connected \cup {c}
    /\ usedIds' = usedIds \cup {c}
    /\ branch' = "-"
    /\ emitted' = <<>>
    /\ UNCHANGED <<room, activeSockets, resident, meeting, dbActive>>

\* The relay never compares socket ids: followed on its own, it is handed
\* them in one order.
Connect(c) ==
    /\ Cardinality(usedIds) < NumConns
    /\ c = IdOf(Cardinality(usedIds) + 1)
    /\ Accept(c)

\* ------------------------------------------------------- join-meeting
JoinRejectedIfUnknown(found, m) == ~found

\* if (!meeting || !meeting.isActive)
JoinRejected(found, m) == ~found \/ ~m.isActive

\* a join that finds an entry of the user bound to another socket id
IsReconnect(m, userId, c) ==
    LET i == GetParticipant(m, userId)
    IN  /\ i # 0
        /\ m.participants[i].socketId # Null
        /\ m.participants[i].socketId # c

OldSocketId(m, userId) == m.participants[GetParticipant(m, userId)].socketId

\* which of its cases a join that went through was in
JoinBranch(m, userId, c) ==
    IF GetParticipant(m, userId) = 0 THEN "insert"
    ELSE IF IsReconnect(m, userId, c) THEN "reconnect"
    ELSE IF OldSocketId(m, userId) = c THEN "same"
    ELSE "bind"

\* "Ensure participant exists": insert, or rebind the existing entry
EnsureParticipant(m, userId, c) ==
    IF GetParticipant(m, userId) = 0
    THEN AddParticipant(m, userId, c)
    ELSE UpdateSocketId(m, userId, c)

ReconnectNoticeNone(m, userId, c, members) == <<>>

\* "Notify others to clean up old connection"
ReconnectNotice(m, userId, c, members) ==
    IF IsReconnect(m, userId, c)
    THEN <<Msg("user-disconnected", ToRoomExcept(members, c), userId,
               OldSocketId(m, userId), <<>>)>>
    ELSE <<>>

\* the handler from the point where getMeeting has answered: found tells
\* whether it returned a meeting, m0 is the meeting it returned
JoinWith(c, mid, userId, found, m0) ==
    IF JoinRejected(found, m0)
    THEN /\ emitted' = <<Msg("error", ToSelf(c), NoUser, Null, <<>>)>>
         /\ branch' = "rejected"
         /\ Install(found, m0)
         /\ UNCHANGED <<room, activeSockets>>
    ELSE LET members == room \cup {c}
             m1 == EnsureParticipant(m0, userId, c)
             registered == [activeSockets EXCEPT
                              ![c] = [userId |-> userId, meetingId |-> mid]]
         IN  /\ room' = members
             /\ activeSockets' =
                  IF IsReconnect(m0, userId, c)
                  THEN [registered EXCEPT ![OldSocketId(m0, userId)] = NoSession]
                  ELSE registered
             /\ Install(TRUE, m1)
             /\ emitted' = ReconnectNotice(m0, userId, c, members) \o
                  << Msg("joined-meeting", ToSelf(c), userId, c, RosterFor(m1, c)),
                     Msg("user-joined", ToRoomExcept(members, c), userId, c, <<>>) >>
             /\ branch' = JoinBranch(m0, userId, c)

JoinMeeting(c, mid, userId) ==
    /\ c \in connected
    /\ JoinWith(c, mid, userId, Found(mid), Resolved(mid))
    /\ UNCHANGED <<connected, usedIds, dbActive>>
    /\ LogRoom

\* ------------------------------------------------------ leave-meeting
LeaveMeeting(c, mid, userId) ==
    /\ c \in connected
    /\ LET found == Found(mid)
           m0 == Resolved(mid)
       IN  /\ Install(found, RemoveParticipant(m0, userId))
           /\ emitted' = IF found
                         THEN <<Msg("user-left", ToRoomExcept(room, c), userId, c, <<>>)>>
                         ELSE <<>>
           /\ branch' = "-"
    /\ room' = IF mid = "M" THEN room \ {c} ELSE room
    /\ activeSockets' = [activeSockets EXCEPT ![c] = NoSession]
    /\ UNCHANGED <<connected, usedIds, dbActive>>
    /\ LogRoom

\* ---------------------------------------------------------- disconnect
DisconnectRemoving(c) ==
    /\ c \in connected
    /\ connected' = connected \ {c}
    /\ room' = room \ {c}
    /\ LET session == activeSockets[c]
           found == session # NoSession /\ Found(session.meetingId)
       IN  /\ Install(found, RemoveParticipant(Resolved(session.meetingId), session.userId))
           /\ emitted' = IF found
                         THEN <<Msg("user-disconnected", ToRoomExcept(room \ {c}, c),
                                    session.userId, c, <<>>)>>
                         ELSE <<>>
           /\ branch' = "-"
    /\ activeSockets' = [activeSockets EXCEPT ![c] = NoSession]
    /\ UNCHANGED <<usedIds, dbActive>>

\* The transport drops c (socket.io takes it out of its rooms), then the
\* 'disconnect' handler runs.
Disconnect(c) ==
    /\ c \in connected
    /\ connected' = connected \ {c}
    /\ room' = room \ {c}
    /\ LET session == activeSockets[c]
           found == session # NoSession /\ Found(session.meetingId)
       IN  /\ Install(found, Resolved(session.meetingId))
           /\ emitted' = IF found
                         THEN <<Msg("user-disconnected", ToRoomExcept(room \ {c}, c),
                                    session.userId, c, <<>>)>>
                         ELSE <<>>
           /\ branch' = "-"
    /\ activeSockets' = [activeSockets EXCEPT ![c] = NoSession]
    /\ UNCHANGED <<usedIds, dbActive>>

\* ------------------------------------------------------- host controls
\* (c is the socket the event arrives on; the handlers of the host controls
\* never read it)
IsHostAnyone(m, hostUserId) == TRUE

\* if (meeting.host === hostUserId)
IsHost(m, hostUserId) == m.host = hostUserId

HostMuteParticipant(c, mid, hostUserId, targetUserId, targetSocketId) ==
    /\ c \in connected
    /\ LET found == Found(mid)
           m0 == Resolved(mid)
           ok == found /\ IsHost(m0, hostUserId)
       IN  /\ Install(found, IF ok THEN UpdateAudioMuted(m0, targetUserId, TRUE) ELSE m0)
           /\ emitted' = IF ok
                         THEN << Msg("force-mute", ToSocket(targetSocketId), NoUser, Null, <<>>),
                                 Msg("audio-toggled", room, targetUserId, Null, <<>>) >>
                         ELSE <<>>
           /\ branch' = IF ~found THEN "-" ELSE IF ok THEN "mute" ELSE "denied"
    /\ UNCHANGED <<connected, usedIds, room, activeSockets, dbActive>>
    /\ LogRoom

RoomAfterKickUnchanged(ok, targetSocketId) == room

\* io.sockets.sockets.get(targetSocketId): if (targetSocket) targetSocket.leave(meetingId)
RoomAfterKick(ok, targetSocketId) ==
    IF ok /\ targetSocketId \in connected THEN room \ {targetSocketId} ELSE room

HostKickParticipant(c, mid, hostUserId, targetUserId, targetSocketId) ==
    /\ c \in connected
    /\ LET found == Found(mid)
           m0 == Resolved(mid)
           ok == found /\ IsHost(m0, hostUserId)
           members == RoomAfterKick(ok, targetSocketId)
       IN  /\ Install(found, IF ok THEN RemoveParticipant(m0, targetUserId) ELSE m0)
           /\ room' = members
           /\ emitted' = IF ok
                         THEN << Msg("kicked-from-meeting", ToSocket(targetSocketId), NoUser, Null, <<>>),
                                 Msg("user-kicked", members, targetUserId, targetSocketId, <<>>) >>
                         ELSE <<>>
           /\ branch' = IF ~found THEN "-" ELSE IF ok THEN "kick" ELSE "denied"
    /\ UNCHANGED <<connected, usedIds, activeSockets, dbActive>>
    /\ LogRoom

\* ------------------------------------------------------ HTTP controller
HttpJoinMeeting(mid, userId) ==
    /\ LET found == Found(mid)
           m0 == Resolved(mid)
           ok == found /\ m0.isActive
       IN  /\ Install(found, IF ok THEN AddParticipant(m0, userId, Null) ELSE m0)
           /\ branch' = "-"
    /\ emitted' = <<>>
    /\ UNCHANGED <<connected, usedIds, room, activeSockets, dbActive>>
    /\ LogRoom

HttpLeaveMeeting(mid, userId) ==
    /\ LET found == Found(mid)
       IN  /\ Install(found, RemoveParticipant(Resolved(mid), userId))
    /\ branch' = "-"
    /\ emitted' = <<>>
    /\ UNCHANGED <<connected, usedIds, room, activeSockets, dbActive>>
    /\ LogRoom

HttpEndMeeting(mid, userId) ==
    /\ LET found == Found(mid)
           m0 == Resolved(mid)
           ok == found /\ m0.host = userId
       IN  /\ Install(found, IF ok THEN [m0 EXCEPT !.isActive = FALSE] ELSE m0)
           /\ dbActive' = IF ok THEN FALSE ELSE dbActive
    /\ branch' = "-"
    /\ emitted' = <<>>
    /\ UNCHANGED <<connected, usedIds, room, activeSockets>>

\* GET /api/meetings/:meetingId: 404 unless the meeting is found and active
HttpGetMeeting(mid) ==
    /\ LET found == Found(mid)
           m0 == Resolved(mid)
       IN  /\ Install(found, m0)
           /\ branch' = IF found /\ m0.isActive THEN "200" ELSE "404"
    /\ emitted' = <<>>
    /\ UNCHANGED <<connected, usedIds, room, activeSockets, dbActive>>

\* -------------------------------------------------------- chat-message
\* the step keeps the chat history within the length runs are followed to,
\* or it works on a history that is about to be full
ChatRoom ==
    \/ Len(meeting'.messages) <= MaxChat
    \/ Len(meeting.messages) >= MessageCap - 1

\* the ids clients give their polls, and the id of a message that is no poll
PollIds == {"p", "q"}
NoPoll == "-"

\* a stored chat message: the payload with a server-made id and type 'text'
\* (the id is never a poll's id)
TextMessage(userId) ==
    [type |-> "text", id |-> NoPoll, userId |-> userId, options |-> <<>>]

\* socket.on('chat-message'): store the message, emit it to the room
ChatMessage(c, mid, userId) ==
    /\ c \in connected
    /\ LET found == Found(mid)
           m0 == Resolved(mid)
       IN  /\ Install(found, IF found THEN AddMessage(m0, TextMessage(userId)) ELSE m0)
           /\ emitted' = IF found
                         THEN <<Msg("chat-message", room, userId, Null, <<>>)>>
                         ELSE <<>>
    /\ branch' = "-"
    /\ UNCHANGED <<connected, usedIds, room, activeSockets, dbActive>>
    /\ ChatRoom

\* ------------------------------------------------------------ file-share
FileMessage(userId) ==
    [type |-> "file", id |-> NoPoll, userId |-> userId, options |-> <<>>]

\* socket.on('file-share'): store the file message, emit it to the room
FileShare(c, mid, userId) ==
    /\ c \in connected
    /\ LET found == Found(mid)
           m0 == Resolved(mid)
       IN  /\ Install(found, IF found THEN AddMessage(m0, FileMessage(userId)) ELSE m0)
           /\ emitted' = IF found
                         THEN <<Msg("file-shared", room, userId, Null, <<>>)>>
                         ELSE <<>>
    /\ branch' = "-"
    /\ UNCHANGED <<connected, usedIds, room, activeSockets, dbActive>>
    /\ ChatRoom

\* ------------------------------------------------------------ transcript
\* a text is a sequence of characters, blank or not
Chars == {" ", "a"}
Texts == UNION { [1..n -> Chars] : n \in 0..MaxText }

RECURSIVE TrimStart(_)
TrimStart(text) ==
    IF text # <<>> /\ Head(text) = " " THEN TrimStart(Tail(text)) ELSE text

RECURSIVE TrimEnd(_)
TrimEnd(text) ==
    IF text # <<>> /\ text[Len(text)] = " "
    THEN TrimEnd(SubSeq(text, 1, Len(text) - 1)) ELSE text

\* String.prototype.trim
Trim(text) == TrimEnd(TrimStart(text))

\* addTranscript: blank text is ignored; the entry is pushed with the
\* isFinal it came with, and the oldest entry dropped beyond the cap
AddTranscript(m, userId, text, isFinal) ==
    IF Trim(text) = <<>> THEN m
    ELSE LET pushed == Append(m.transcript,
                              [userId |-> userId, text |-> Trim(text), isFinal |-> isFinal])
         IN  [m EXCEPT !.transcript =
                 IF Len(pushed) > TranscriptCap THEN Tail(pushed) ELSE pushed]

\* the step keeps the transcript within the length runs are followed to,
\* or it works on a transcript that is about to be full
TranscriptRoom ==
    \/ Len(meeting'.transcript) <= MaxChat
    \/ Len(meeting.transcript) >= TranscriptCap - 1

TranscriptMsg(to, userId, text, isFinal) ==
    [ev |-> "transcript-update", to |-> to, userId |-> userId,
     text |-> text, isFinal |-> isFinal]

\* socket.on('transcript'): store the entry, emit it to the rest of the room
Transcript(c, mid, userId, text, isFinal) ==
    /\ c \in connected
    /\ LET found == Found(mid)
           m0 == Resolved(mid)
           ok == found /\ Trim(text) # <<>>
       IN  /\ Install(found, IF ok THEN AddTranscript(m0, userId, text, isFinal) ELSE m0)
           /\ emitted' = IF ok
                         THEN <<TranscriptMsg(ToRoomExcept(room, c), userId, text, isFinal)>>
                         ELSE <<>>
    /\ branch' = "-"
    /\ UNCHANGED <<connected, usedIds, room, activeSockets, dbActive>>
    /\ TranscriptRoom

\* ------------------------------------------------------- state updates
\* toggle-audio, toggle-video, raise-hand, screen-share: the flag each one
\* sets, and the activity logged when the flag changes
ToggleEvents == {"toggle-audio", "toggle-video", "raise-hand", "screen-share"}

FlagOf(ev) ==
    CASE ev = "toggle-audio" -> "isAudioMuted"
      [] ev = "toggle-video" -> "isVideoOff"
      [] ev = "raise-hand" -> "isHandRaised"
      [] ev = "screen-share" -> "isScreenSharing"

ActivityOf(flag, value) ==
    CASE flag = "isHandRaised" -> IF value THEN "hand-raise" ELSE "hand-lower"
      [] flag = "isScreenSharing" -> IF value THEN "screen-share-start" ELSE "screen-share-stop"
      [] flag = "isAudioMuted" -> IF value THEN "mute" ELSE "unmute"
      [] flag = "isVideoOff" -> IF value THEN "video-off" ELSE "video-on"

\* an update that logs the activity whether or not the flag changes
UpdateParticipantAlwaysLogging(m, userId, flag, value) ==
    LET i == GetParticipant(m, userId)
    IN  IF i = 0 THEN m
        ELSE [AddActivity(m, ActivityOf(flag, value), userId)
                 EXCEPT !.participants[i][flag] = value]

\* updateParticipant(userId, {flag: value})
UpdateParticipant(m, userId, flag, value) ==
    LET i == GetParticipant(m, userId)
    IN  IF i = 0 THEN m
        ELSE LET logged == IF m.participants[i][flag] # value
                           THEN AddActivity(m, ActivityOf(flag, value), userId)
                           ELSE m
             IN  [logged EXCEPT !.participants[i][flag] = value]

ToggledNotice(ev) ==
    CASE ev = "toggle-audio" -> "audio-toggled"
      [] ev = "toggle-video" -> "video-toggled"
      [] ev = "raise-hand" -> "hand-raised"
      [] ev = "screen-share" -> "screen-share-update"

\* socket.on(ev) for the four ToggleEvents
Toggle(ev, c, mid, userId, value) ==
    /\ c \in connected
    /\ LET found == Found(mid)
           m0 == Resolved(mid)
       IN  /\ Install(found, IF found THEN UpdateParticipant(m0, userId, FlagOf(ev), value) ELSE m0)
           /\ emitted' = IF found
                         THEN <<Msg(ToggledNotice(ev), ToRoomExcept(room, c), userId, Null, <<>>)>>
                         ELSE <<>>
    /\ branch' = "-"
    /\ UNCHANGED <<connected, usedIds, room, activeSockets, dbActive>>
    /\ LogRoom

\* ------------------------------------------------------------- polls
\* an option as a create-poll payload carries it: a string, or an object with
\* the votes and the count its sender put there
StringOption == [isString |-> TRUE, votes |-> <<>>, count |-> 0]

OptionPayloads ==
    {StringOption} \cup
    {[isString |-> FALSE, votes |-> v, count |-> n] :
        v \in {<<>>, <<HostUser, HostUser>>}, n \in 0..1}

\* the option lists of the payloads: all strings, as the poll form sends them,
\* or an object in the first place, or the same object in every place
StringPayload == [i \in 1..NumOptions |-> StringOption]

PollPayloads ==
    {[i \in 1..NumOptions |-> IF i = 1 \/ all THEN o ELSE StringOption] :
        o \in OptionPayloads, all \in BOOLEAN}

\* create-poll: a string option gets an empty voter list and count 0, an
\* object keeps its own votes and count (opt.votes || [], opt.count || 0)
FormattedOption(opt) ==
    IF opt.isString
    THEN [votes |-> <<>>, count |-> 0]
    ELSE [votes |-> opt.votes, count |-> opt.count]

formattedOptions(options) ==
    [i \in 1..Len(options) |-> FormattedOption(options[i])]

PollMessage(pollId, userId, options) ==
    [type |-> "poll", id |-> pollId, userId |-> userId,
     options |-> formattedOptions(options)]

\* socket.on('create-poll'): store the poll among the messages, emit it to the room
CreatePoll(c, mid, pollId, userId, options) ==
    /\ c \in connected
    /\ LET found == Found(mid)
           m0 == Resolved(mid)
       IN  /\ Install(found, IF found
                             THEN AddMessage(m0, PollMessage(pollId, userId, options))
                             ELSE m0)
           /\ emitted' = IF found
                         THEN <<Msg("poll-created", room, userId, Null, <<>>)>>
                         ELSE <<>>
    /\ branch' = "-"
    /\ UNCHANGED <<connected, usedIds, room, activeSockets, dbActive>>
    /\ ChatRoom

\* messages.findIndex(msg => msg.id === pollId && msg.type === 'poll'), 0 for -1
PollIndex(m, pollId) ==
    LET hits == {i \in 1..Len(m.messages) :
                    m.messages[i].id = pollId /\ m.messages[i].type = "poll"}
    IN  IF hits = {} THEN 0 ELSE CHOOSE i \in hits : \A j \in hits : i <= j

\* a vote that is pushed without the filter before it
VotesAfterAppending(votes, idx, userId, optionIndex) ==
    IF idx = optionIndex THEN Append(votes, userId) ELSE votes

\* the voter list of one option after a vote: the voter is filtered out, and
\* pushed when the option's (0-based) index is the payload's optionIndex
VotesAfter(votes, idx, userId, optionIndex) ==
    LET others == SelectSeq(votes, LAMBDA v : v # userId)
    IN  IF idx = optionIndex THEN Append(others, userId) ELSE others

CastVote(options, userId, optionIndex) ==
    [i \in 1..Len(options) |->
        LET votes == VotesAfter(options[i].votes, i - 1, userId, optionIndex)
        IN  [votes |-> votes, count |-> Len(votes)]]

\* socket.on('vote-poll'): recount the stored poll; 'poll-voted' goes to the
\* room of the payload's meetingId whether or not a poll was found
VotePoll(c, mid, pollId, userId, optionIndex) ==
    /\ c \in connected
    /\ LET found == Found(mid)
           m0 == Resolved(mid)
           i == IF found THEN PollIndex(m0, pollId) ELSE 0
       IN  Install(found,
                   IF i # 0
                   THEN [m0 EXCEPT !.messages[i].options = CastVote(@, userId, optionIndex)]
                   ELSE m0)
    /\ emitted' = <<Msg("poll-voted", IF mid = "M" THEN room ELSE {}, userId, Null, <<>>)>>
    /\ branch' = "-"
    /\ UNCHANGED <<connected, usedIds, room, activeSockets, dbActive>>

\* the optionIndex values a vote may carry: the poll's options (0-based) and
\* one value on either side of them
OptionIndexes == -1..NumOptions

\* ---------------------------------------------------- signaling relay
\* the payloads of signaling messages (an SDP or a candidate, opaque to the
\* relay); a client may put a sender of its choosing into what it sends
Payloads == { [body |-> b, sender |-> s] : b \in {"sdp", "candidate"}, s \in {Null} \cup ConnIds }

\* io.to(data.target).emit(ev, { offer: data.offer, sender }): what is sent,
\* the room it is addressed to and the sockets in that room
SignalMsg(ev, target, sender, payload) ==
    [ev |-> ev, to |-> ToSocket(target), userId |-> NoUser, socketId |-> sender,
     roster |-> <<>>, payload |-> payload.body, target |-> target]

SenderTagFromPayload(c, payload) == IF payload.sender # Null THEN payload.sender ELSE c

\* sender: socket.id
SenderTag(c, payload) == c

\* socket.on('offer') / socket.on('answer') / socket.on('ice-candidate'):
\* forward to the target socket, naming the sending socket
RelaySignal(ev, c, target, payload) ==
    /\ c \in connected
    /\ emitted' = <<SignalMsg(ev, target, SenderTag(c, payload), payload)>>
    /\ branch' = "-"
    /\ UNCHANGED <<connected, usedIds, room, activeSockets, resident, meeting, dbActive>>

\* ================================================= the VideoCall client
\* Two browsers, one per user.  A handler of the client runs as one step;
\* what it emits is relayed in the same step.  Local media is available
\* (the socket is opened after initializeMedia returned).
Clients == {"A", "B"}
UserOf(cl) == IF cl = "A" THEN HostUser ELSE GuestUser
Other(cl) == IF cl = "A" THEN "B" ELSE "A"

VARIABLES
    sid,            \* socket.id of the client's socket (Null before it is opened)
    joinPending,    \* the client emitted join-meeting and the relay has not handled it
    participantList,\* the participants state: user id -> socket id shown (Null: not listed)
    pcs,            \* peerConnections: remote socket id -> PeerLink
    timers,         \* remote socket id -> setTimeout(createOffer) calls not yet run
    inbox,          \* events sent to the client's socket and not yet handled
    offersSent,     \* <<from, to>> of every offer emitted so far
    freshPairs,     \* {joiner, listed} for every first join that listed a live socket
    glareLog        \* since the last reconnect: offers of the two clients that crossed,
                    \* and the outcomes of handleOffer's glare branch

clientVars == <<sid, joinPending, participantList, pcs, timers, inbox,
                offersSent, freshPairs, glareLog>>

\* the initiator test looked at by itself (see the end of the module)
VARIABLES
    idA, idB,       \* the socket ids of two sides
    decision        \* per side: the place that computed shouldInitiate, and its value

probeVars == <<idA, idB, decision>>

\* the observer of the bounded logs: every entry a log has accepted, in
\* arrival order, and the events handled so far
VARIABLES
    arrived,
    events

capVars == <<arrived, events>>

CapIdle ==
    /\ arrived = [messages |-> <<>>, transcript |-> <<>>]
    /\ events = 0

\* the summary service: the GeminiService singleton, and the request to
\* POST /api/summary/missed-speech that is being served
VARIABLES
    gemini,
    request

svcVars == <<gemini, request>>

\* the join-meeting handlers that wait for the durable store to answer
\* their getMeeting
VARIABLES
    lookups

lookupVars == <<lookups>>
LookupIdle == lookups = {}

\* One client's PeerLinks followed at the grain of their awaits: the refs of
\* the component next to peerConnections, and what an observer notes
VARIABLES
    pendingOffers,          \* socket ids for which createOffer has work in flight
    pendingIceCandidates,   \* socket id -> candidates queued for it
    remoteDescription,      \* socket id -> the PeerLink's pc.remoteDescription is set
    added,                  \* socket id -> candidates given to the PeerLink's addIceCandidate
    offerCalls,             \* the createOffer calls that wait at an await
    observed                \* the observer's notes (see NoObservation)

linkVars == <<pendingOffers, pendingIceCandidates, remoteDescription, added,
              offerCalls, observed>>

\* live: remote sockets that are connected; arrivals: events handled so far;
\* made: PeerLinks created per socket id; heard: the candidates received for
\* a socket id since its queue and PeerLink were last discarded; outstanding:
\* offers sent on the PeerLink and neither answered nor rolled back; gone:
\* socket ids a left, disconnected or kicked notice named and no joined
\* notice has named since
NoObservation ==
    [live |-> {}, arrivals |-> 0,
     made |-> [c \in ConnIds |-> 0],
     heard |-> [c \in ConnIds |-> <<>>],
     outstanding |-> [c \in ConnIds |-> 0],
     gone |-> {}]

LinkIdle ==
    /\ pendingOffers = {}
    /\ pendingIceCandidates = [c \in ConnIds |-> <<>>]
    /\ remoteDescription = [c \in ConnIds |-> FALSE]
    /\ added = [c \in ConnIds |-> <<>>]
    /\ offerCalls = {}
    /\ observed = NoObservation

auxVars == <<capVars, svcVars, lookupVars, linkVars>>

\* no RTCPeerConnection under this key
NoPc == [signalingState |-> "closed", isInitiator |-> FALSE, negotiationNeeded |-> FALSE]
NoGlare == [collisions |-> 0, rolledBack |-> 0, ignored |-> 0]

ClientInit ==
    /\ sid = [cl \in Clients |-> Null]
    /\ joinPending = [cl \in Clients |-> FALSE]
    /\ participantList = [cl \in Clients |-> [u \in Users |-> Null]]
    /\ pcs = [cl \in Clients |-> [r \in ConnIds |-> NoPc]]
    /\ timers = [cl \in Clients |-> [r \in ConnIds |-> 0]]
    /\ inbox = [cl \in Clients |-> <<>>]
    /\ offersSent = {}
    /\ freshPairs = {}
    /\ glareLog = NoGlare

\* a client's PeerLinks and timers, threaded through a handler
Links(P, T) == [P |-> P, T |-> T]

ShouldInitiateReversed(localId, remoteId) == StrLess(remoteId, localId)

\* const shouldInitiate = localId < remoteId
ShouldInitiate(localId, remoteId) == StrLess(localId, remoteId)

\* createPeerConnection(socketId, isInitiator): a new RTCPeerConnection in
\* the stable state; addTrack makes it fire negotiationneeded; an initiator
\* schedules createOffer
CreatePeerConnection(L, socketId, isInitiator) ==
    Links([L.P EXCEPT ![socketId] =
              [signalingState |-> "stable", isInitiator |-> isInitiator,
               negotiationNeeded |-> TRUE]],
          [L.T EXCEPT ![socketId] = @ + (IF isInitiator THEN 1 ELSE 0)])

\* createPeerConnection followed by the caller's own setTimeout(createOffer)
CreateAndSchedule(L, socketId, shouldInitiate) ==
    LET made == CreatePeerConnection(L, socketId, shouldInitiate)
    IN  Links(made.P,
              [made.T EXCEPT ![socketId] = @ + (IF shouldInitiate THEN 1 ELSE 0)])

\* cleanupPeerConnection(socketId): handlers removed, closed, forgotten
\* (timers that were set are not cleared)
CleanupPeerConnection(L, socketId) ==
    IF socketId = Null THEN L
    ELSE Links([L.P EXCEPT ![socketId] = NoPc], L.T)

\* the forEach of the joined-meeting handler
RECURSIVE ConnectToRoster(_, _, _)
ConnectToRoster(L, localId, roster) ==
    IF roster = <<>> THEN L
    ELSE LET remoteId == Head(roster).socketId
             skip == \/ remoteId = Null
                     \/ remoteId = localId
                     \/ L.P[remoteId] # NoPc
         IN  ConnectToRoster(
                 IF skip THEN L
                 ELSE CreateAndSchedule(L, remoteId, ShouldInitiate(localId, remoteId)),
                 localId, Tail(roster))

\* the participants state set by the joined-meeting handler: the client
\* itself, then the roster without repeated (or its own) user ids
RECURSIVE ListRoster(_, _)
ListRoster(shown, roster) ==
    IF roster = <<>> THEN shown
    ELSE LET p == Head(roster)
         IN  ListRoster(IF shown[p.userId] # Null THEN shown
                        ELSE [shown EXCEPT ![p.userId] = p.socketId],
                        Tail(roster))

\* createOffer(socketId): skipped unless a PeerLink exists and is stable
\* (pendingOffers never blocks a handler that runs as one step)
CanOffer(L, socketId) ==
    L.P[socketId] # NoPc /\ L.P[socketId].signalingState = "stable"

CreateOffer(L, socketId) ==
    IF CanOffer(L, socketId)
    THEN Links([L.P EXCEPT ![socketId].signalingState = "have-local-offer"], L.T)
    ELSE L

RollsBackLargerId(localId, senderId) == localId # Null /\ StrLess(senderId, localId)

RollsBackNever(localId, senderId) == FALSE

\* if (localId && localId < senderId): roll the local offer back
RollsBack(localId, senderId) == localId # Null /\ StrLess(localId, senderId)

\* an offer arrives while the PeerLink's own offer is outstanding
IsGlare(L, senderId) ==
    L.P[senderId] # NoPc /\ L.P[senderId].signalingState = "have-local-offer"

\* handleOffer ignores the offer (returns before answering)
OfferIgnored(L, localId, senderId) ==
    IsGlare(L, senderId) /\ ~RollsBack(localId, senderId)

\* handleOffer when it goes on to answer: roll back on glare, recreate a
\* PeerLink in a conflicting state, create a missing one as non-initiator,
\* set the remote description and the local answer
HandleOffer(L, localId, senderId) ==
    LET rolled == IF IsGlare(L, senderId)
                  THEN Links([L.P EXCEPT ![senderId].signalingState = "stable"], L.T)
                  ELSE L
        kept == IF /\ rolled.P[senderId] # NoPc
                   /\ rolled.P[senderId].signalingState \notin {"stable", "have-remote-offer"}
                THEN CleanupPeerConnection(rolled, senderId)
                ELSE rolled
        ready == IF kept.P[senderId] = NoPc
                 THEN CreatePeerConnection(kept, senderId, FALSE)
                 ELSE kept
    IN  Links([ready.P EXCEPT ![senderId].signalingState = "stable",
                              ![senderId].negotiationNeeded = FALSE],
              ready.T)

\* handleAnswer: accepted only while the local offer is outstanding
HandleAnswer(L, senderId) ==
    IF L.P[senderId] # NoPc /\ L.P[senderId].signalingState = "have-local-offer"
    THEN Links([L.P EXCEPT ![senderId].signalingState = "stable",
                           ![senderId].negotiationNeeded = FALSE],
               L.T)
    ELSE L

\* ----------------------------------------------------- client actions
MyLinks(cl) == Links(pcs[cl], timers[cl])

SetLinks(cl, L) ==
    /\ pcs' = [pcs EXCEPT ![cl] = L.P]
    /\ timers' = [timers EXCEPT ![cl] = L.T]

\* what the step's emissions add to the inboxes: an event reaches a client
\* when it is sent to the socket the client holds (no step both emits and
\* changes a socket)
RECURSIVE SentTo(_, _)
SentTo(msgs, socketId) ==
    IF msgs = <<>> THEN <<>>
    ELSE (IF socketId \in Head(msgs).to THEN <<Head(msgs)>> ELSE <<>>)
         \o SentTo(Tail(msgs), socketId)

Delivered(base, didEmit) ==
    [k \in Clients |->
        base[k] \o (IF didEmit THEN SentTo(emitted', sid[k]) ELSE <<>>)]

\* what the client sends along: pc.localDescription, and no sender
SessionDescription == [body |-> "sdp", sender |-> Null]

\* the client's socket.emit(ev, {target}) and the relay's handling of it
Signal(cl, ev, target, base) ==
    /\ RelaySignal(ev, sid[cl], target, SessionDescription)
    /\ inbox' = Delivered(base, TRUE)

Silent(base) ==
    /\ UNCHANGED serverVars
    /\ inbox' = base

Popped(cl) == [inbox EXCEPT ![cl] = Tail(@)]

\* initializeConnection: open the socket, emit join-meeting
ClientStart(cl, c) ==
    /\ UNCHANGED <<probeVars, auxVars>>
    /\ sid[cl] = Null
    /\ Accept(c)
    /\ sid' = [sid EXCEPT ![cl] = c]
    /\ joinPending' = [joinPending EXCEPT ![cl] = TRUE]
    /\ UNCHANGED <<participantList, pcs, timers, inbox, offersSent, freshPairs, glareLog>>

\* The socket is lost and socket.io reconnects under a new id; the
\* 'reconnect' handler emits join-meeting again.  Events in flight to the
\* old socket are lost; the relay may learn of the loss later (ReleaseStale).
Reconnect(cl, c) ==
    /\ UNCHANGED <<probeVars, auxVars>>
    /\ sid[cl] # Null
    /\ Accept(c)
    /\ sid' = [sid EXCEPT ![cl] = c]
    /\ joinPending' = [joinPending EXCEPT ![cl] = TRUE]
    /\ inbox' = [inbox EXCEPT ![cl] = <<>>]
    /\ glareLog' = NoGlare
    /\ UNCHANGED <<participantList, pcs, timers, offersSent, freshPairs>>

\* the relay's disconnect handler for a socket no client holds any more
ReleaseStale(c) ==
    /\ UNCHANGED <<probeVars, auxVars>>
    /\ \A cl \in Clients : sid[cl] # c
    /\ Disconnect(c)
    /\ inbox' = Delivered(inbox, TRUE)
    /\ UNCHANGED <<sid, joinPending, participantList, pcs, timers,
                   offersSent, freshPairs, glareLog>>

\* the relay handles the client's join-meeting
RelayJoin(cl) ==
    /\ UNCHANGED <<probeVars, auxVars>>
    /\ joinPending[cl]
    /\ JoinMeeting(sid[cl], "M", UserOf(cl))
    /\ joinPending' = [joinPending EXCEPT ![cl] = FALSE]
    /\ inbox' = Delivered(inbox, TRUE)
    /\ freshPairs' =
         IF branch' \in {"insert", "bind"}
         THEN LET roster == emitted'[Len(emitted') - 1].roster
              IN  freshPairs \cup
                  { {sid[cl], roster[k].socketId} :
                      k \in { j \in 1..Len(roster) : roster[j].socketId \in connected } }
         ELSE freshPairs
    /\ UNCHANGED <<sid, participantList, pcs, timers, offersSent, glareLog>>

Incoming(cl, evs) == inbox[cl] # <<>> /\ Head(inbox[cl]).ev \in evs

\* socket.on('joined-meeting')
OnJoinedMeeting(cl) ==
    /\ UNCHANGED <<probeVars, auxVars>>
    /\ Incoming(cl, {"joined-meeting"})
    /\ LET data == Head(inbox[cl])
           self == [u \in Users |-> IF u = UserOf(cl) THEN sid[cl] ELSE Null]
       IN  /\ participantList' = [participantList EXCEPT ![cl] = ListRoster(self, data.roster)]
           /\ SetLinks(cl, ConnectToRoster(MyLinks(cl), sid[cl], data.roster))
    /\ Silent(Popped(cl))
    /\ UNCHANGED <<sid, joinPending, offersSent, freshPairs, glareLog>>

\* socket.on('user-joined')
OnUserJoined(cl) ==
    /\ UNCHANGED <<probeVars, auxVars>>
    /\ Incoming(cl, {"user-joined"})
    /\ LET data == Head(inbox[cl])
           existing == participantList[cl][data.userId]
           cleaned == IF existing # Null /\ existing # data.socketId
                      THEN CleanupPeerConnection(MyLinks(cl), existing)
                      ELSE MyLinks(cl)
           remoteId == data.socketId
       IN  /\ participantList' = [participantList EXCEPT ![cl][data.userId] = data.socketId]
           /\ SetLinks(cl, IF \/ remoteId = Null
                              \/ remoteId = sid[cl]
                              \/ cleaned.P[remoteId] # NoPc
                           THEN cleaned
                           ELSE CreateAndSchedule(cleaned, remoteId,
                                                  ShouldInitiate(sid[cl], remoteId)))
    /\ Silent(Popped(cl))
    /\ UNCHANGED <<sid, joinPending, offersSent, freshPairs, glareLog>>

\* socket.on('user-left' | 'user-disconnected' | 'user-kicked'): handleUserDisconnected
OnUserGone(cl) ==
    /\ UNCHANGED <<probeVars, auxVars>>
    /\ Incoming(cl, {"user-left", "user-disconnected", "user-kicked"})
    /\ LET data == Head(inbox[cl])
       IN  /\ SetLinks(cl, CleanupPeerConnection(MyLinks(cl), data.socketId))
           /\ participantList' = [participantList EXCEPT ![cl] =
                 [u \in Users |-> IF @[u] = data.socketId THEN Null ELSE @[u]]]
    /\ Silent(Popped(cl))
    /\ UNCHANGED <<sid, joinPending, offersSent, freshPairs, glareLog>>

\* the glare branch counts for the pair of the two current sockets
CountsAsGlare(cl, senderId) ==
    IsGlare(MyLinks(cl), senderId) /\ senderId = sid[Other(cl)]

\* socket.on('offer'): handleOffer
OnOffer(cl) ==
    /\ UNCHANGED <<probeVars, auxVars>>
    /\ Incoming(cl, {"offer"})
    /\ LET senderId == Head(inbox[cl]).socketId
           ignore == OfferIgnored(MyLinks(cl), sid[cl], senderId)
       IN  /\ IF ignore
              THEN /\ UNCHANGED <<pcs, timers>>
                   /\ Silent(Popped(cl))
              ELSE /\ SetLinks(cl, HandleOffer(MyLinks(cl), sid[cl], senderId))
                   /\ Signal(cl, "answer", senderId, Popped(cl))
           /\ glareLog' =
                IF ~CountsAsGlare(cl, senderId) THEN glareLog
                ELSE IF ignore THEN [glareLog EXCEPT !.ignored = @ + 1]
                ELSE [glareLog EXCEPT !.rolledBack = @ + 1]
    /\ UNCHANGED <<sid, joinPending, participantList, offersSent, freshPairs>>

\* socket.on('answer'): handleAnswer
OnAnswer(cl) ==
    /\ UNCHANGED <<probeVars, auxVars>>
    /\ Incoming(cl, {"answer"})
    /\ SetLinks(cl, HandleAnswer(MyLinks(cl), Head(inbox[cl]).socketId))
    /\ Silent(Popped(cl))
    /\ UNCHANGED <<sid, joinPending, participantList, offersSent, freshPairs, glareLog>>

\* socket.on('error'): reported to the page, no state of the call changes
OnError(cl) ==
    /\ UNCHANGED <<probeVars, auxVars>>
    /\ Incoming(cl, {"error"})
    /\ Silent(Popped(cl))
    /\ UNCHANGED <<sid, joinPending, participantList, pcs, timers,
                   offersSent, freshPairs, glareLog>>

\* an offer to the peer's socket is created while an offer of the peer is
\* on its way to this client
Crosses(cl, socketId) ==
    /\ socketId = sid[Other(cl)]
    /\ \E k \in 1..Len(inbox[cl]) :
          inbox[cl][k].ev = "offer" /\ inbox[cl][k].socketId = socketId

\* a call of createOffer(socketId) on links L, and the relay of its offer
OfferFrom(cl, L, socketId) ==
    /\ SetLinks(cl, CreateOffer(L, socketId))
    /\ IF CanOffer(L, socketId)
       THEN /\ Signal(cl, "offer", socketId, inbox)
            /\ offersSent' = offersSent \cup {<<sid[cl], socketId>>}
            /\ glareLog' = IF Crosses(cl, socketId)
                           THEN [glareLog EXCEPT !.collisions = @ + 1]
                           ELSE glareLog
       ELSE /\ Silent(inbox)
            /\ UNCHANGED <<offersSent, glareLog>>

\* a setTimeout(() => createOffer(socketId), ...) runs
TimerFires(cl, socketId) ==
    /\ UNCHANGED <<probeVars, auxVars>>
    /\ timers[cl][socketId] > 0
    /\ OfferFrom(cl, Links(pcs[cl], [timers[cl] EXCEPT ![socketId] = @ - 1]), socketId)
    /\ UNCHANGED <<sid, joinPending, participantList, freshPairs>>

\* onnegotiationneeded of the PeerLink: if (isInitiator) createOffer(socketId)
NegotiationNeeded(cl, socketId) ==
    /\ UNCHANGED <<probeVars, auxVars>>
    /\ pcs[cl][socketId] # NoPc
    /\ pcs[cl][socketId].negotiationNeeded
    /\ LET L == Links([pcs[cl] EXCEPT ![socketId].negotiationNeeded = FALSE], timers[cl])
       IN  IF pcs[cl][socketId].isInitiator
           THEN OfferFrom(cl, L, socketId)
           ELSE /\ SetLinks(cl, L)
                /\ Silent(inbox)
                /\ UNCHANGED <<offersSent, glareLog>>
    /\ UNCHANGED <<sid, joinPending, participantList, freshPairs>>

RtcNext ==
    \/ \E cl \in Clients, c \in ConnIds : ClientStart(cl, c)
    \/ \E cl \in Clients, c \in ConnIds : Reconnect(cl, c)
    \/ \E c \in ConnIds : ReleaseStale(c)
    \/ \E cl \in Clients : RelayJoin(cl)
    \/ \E cl \in Clients : OnJoinedMeeting(cl)
    \/ \E cl \in Clients : OnUserJoined(cl)
    \/ \E cl \in Clients : OnUserGone(cl)
    \/ \E cl \in Clients : OnOffer(cl)
    \/ \E cl \in Clients : OnAnswer(cl)
    \/ \E cl \in Clients : OnError(cl)
    \/ \E cl \in Clients, r \in ConnIds : TimerFires(cl, r)
    \/ \E cl \in Clients, r \in ConnIds : NegotiationNeeded(cl, r)

\* ------------------------------------------- the initiator test by itself
\* Two clients that hold the sockets idA and idB each compute, for the
\* other's id, the test of one of the places that create a PeerLink.
CodeUnits == 1..3
IdStrings == UNION { [1..n -> CodeUnits] : n \in 1..MaxIdLen }
Sides == {"a", "b"}


Undecided == [path |-> "-", shouldInitiate |-> FALSE]
LocalOf(side) == IF side = "a" THEN idA ELSE idB
RemoteOf(side) == IF side = "a" THEN idB ELSE idA
Decide(side, path, value) ==
    /\ decision' = [decision EXCEPT ![side] = [path |-> path, shouldInitiate |-> value]]
    /\ UNCHANGED <<idA, idB, serverVars, clientVars, auxVars>>

ProbeIdle ==
    /\ idA = Null
    /\ idB = Null
    /\ decision = [side \in Sides |-> Undecided]

ProbeInit ==
    /\ idA \in IdStrings
    /\ idB \in IdStrings \ {idA}
    /\ decision = [side \in Sides |-> Undecided]

\* joined-meeting handler: const shouldInitiate = localId < remoteId
RosterDecision(side) ==
    Decide(side, "joined-meeting", ShouldInitiate(LocalOf(side), RemoteOf(side)))

\* user-joined handler: const shouldInitiate = localId < remoteId
JoinedDecision(side) ==
    Decide(side, "user-joined", ShouldInitiate(LocalOf(side), RemoteOf(side)))

\* pendingPeers effect: localId = socketRef.current?.id || ''
PendingPeerDecision(side) ==
    Decide(side, "pendingPeers", ShouldInitiate(LocalOf(side), RemoteOf(side)))

\* recovery of a failed connection: if (localId && connected) shouldInitiate = localId < socketId
RecoveryDecision(side) ==
    /\ LocalOf(side) # Null
    /\ Decide(side, "recovery", ShouldInitiate(LocalOf(side), RemoteOf(side)))

ProbeNext ==
    \/ \E side \in Sides : RosterDecision(side)
    \/ \E side \in Sides : JoinedDecision(side)
    \/ \E side \in Sides : PendingPeerDecision(side)
    \/ \E side \in Sides : RecoveryDecision(side)

\* ------------------------------------------------------- GeminiService
\* An error is modelled by the phrases of its message; includes() looks
\* for a phrase.
Includes(message, phrase) == \E i \in 1..Len(message) : message[i] = phrase

\* what the external operation may do: succeed, or fail with one of these
RawErrors ==
    { <<"429">>, <<"api key not valid">>, <<"not found">>, <<"socket hang up">>,
      <<"api key not valid", "429">>, <<"quota", "not found">> }
Outcomes == {<<"ok">>} \cup RawErrors

IsRateLimitError(error) == Includes(error, "429") \/ Includes(error, "quota")
IsApiKeyInvalidError(error) == Includes(error, "api key not valid")
IsModelNotFoundError(error) == Includes(error, "not found")

AllKeysInvalid == <<"GEMINI_API_KEY_INVALID", "All API keys are invalid">>
AllQuotaExceeded == <<"RATE_LIMIT", "All API keys quota exceeded">>
AllModelsUnavailable == <<"AI_UNAVAILABLE", "All AI models are currently unavailable">>

NoRequest ==
    [pc |-> "idle", apiKeyAttempt |-> 0, attempt |-> 0, lastError |-> <<>>,
     startModelIndex |-> 0, startApiKeyIndex |-> 0, invoked |-> 0,
     thrown |-> <<>>, status |-> 0]

SvcIdle ==
    /\ gemini = [keys |-> 1, apiKeyIndex |-> 0, modelIndex |-> 0,
                 keyTimer |-> FALSE, modelTimer |-> FALSE]
    /\ request = NoRequest

SvcInit ==
    /\ gemini \in [keys : 0..MaxKeys, apiKeyIndex : {0}, modelIndex : {0},
                   keyTimer : {FALSE}, modelTimer : {FALSE}]
    /\ request = NoRequest

\* switchToNextApiKey / switchToFallback succeed when there is a next one
HasNextApiKey(g) == g.apiKeyIndex < g.keys - 1
HasFallback(g) == g.modelIndex < ModelCount - 1

\* switchToNextApiKey: the next key, its models initialized from the first
SwitchToNextApiKey(g) == [g EXCEPT !.apiKeyIndex = @ + 1, !.modelIndex = 0]
\* switchToFallback
SwitchToFallback(g) == [g EXCEPT !.modelIndex = @ + 1]

\* the indices put back to where the call found them
Restored(g, r) ==
    [g EXCEPT !.modelIndex = r.startModelIndex, !.apiKeyIndex = r.startApiKeyIndex]

\* summarizeMissedSpeech's catch: the error it throws in the place of the
\* one executeWithFallback threw
Rethrown(error) ==
    IF Includes(error, "RATE_LIMIT")
    THEN <<"AI service is temporarily busy. Please try again in a moment.">>
    ELSE IF Includes(error, "GEMINI_API_KEY_INVALID")
    THEN <<"AI service configuration invalid: GEMINI_API_KEY is not valid.">>
    ELSE <<"Failed to generate speech summary. Please try again.">>

\* the controller's catch: the HTTP status for an error of the service
StatusCode(error) ==
    IF Includes(error, "RATE_LIMIT") THEN 429
    ELSE IF Includes(error, "AI_UNAVAILABLE") THEN 503
    ELSE 500

\* executeWithFallback throws error: the service rethrows, the controller answers
Throw(g, r, error) ==
    /\ gemini' = g
    /\ request' = [r EXCEPT !.pc = "done", !.thrown = error,
                            !.status = StatusCode(Rethrown(error))]

\* both loops ran out: the indices are restored and the last error thrown
Exhausted(g, r) == Throw(Restored(g, r), r, r.lastError)

\* break, and the end of an inner loop: the next pass of the outer loop
Break(g, r) ==
    IF r.apiKeyAttempt + 1 <= g.keys
    THEN /\ gemini' = g
         /\ request' = [r EXCEPT !.apiKeyAttempt = @ + 1, !.attempt = 0]
    ELSE Exhausted(g, r)

\* continue: the next pass of the inner loop
Continue(g, r) ==
    IF r.attempt + 1 < MaxRetries
    THEN /\ gemini' = g
         /\ request' = [r EXCEPT !.attempt = @ + 1]
    ELSE Break(g, r)

\* the result is returned: the resets to the primary key and model are
\* scheduled when the call ended on another one
Return(g, r) ==
    /\ gemini' = [g EXCEPT !.keyTimer = @ \/ g.apiKeyIndex # 0,
                           !.modelTimer = @ \/ g.modelIndex # 0]
    /\ request' = [r EXCEPT !.pc = "done", !.status = 200]

\* a catch block that tries again whatever the error is
CaughtRetrying(g, r, error) ==
    /\ gemini' = g
    /\ request' = r

\* the catch block of executeWithFallback
Caught(g, r, error) ==
    IF IsApiKeyInvalidError(error)
    THEN IF HasNextApiKey(g) THEN Break(SwitchToNextApiKey(g), r)
         ELSE Throw(g, r, AllKeysInvalid)
    ELSE IF IsRateLimitError(error)
    THEN IF HasFallback(g) THEN Continue(SwitchToFallback(g), r)
         ELSE IF HasNextApiKey(g) THEN Break(SwitchToNextApiKey(g), r)
         ELSE Throw(Restored(g, r), r, AllQuotaExceeded)
    ELSE IF IsModelNotFoundError(error)
    THEN IF HasFallback(g) THEN Continue(SwitchToFallback(g), r)
         ELSE Throw(g, r, AllModelsUnavailable)
    ELSE Throw(g, r, error)

\* one pass of the inner loop: operation(getCurrentModel()) is awaited and
\* succeeds or fails
Respond(outcome) ==
    /\ request.pc = "try"
    /\ LET r == [request EXCEPT !.invoked = @ + 1,
                                !.lastError = IF outcome = <<"ok">> THEN @ ELSE outcome]
       IN  IF outcome = <<"ok">> THEN Return(gemini, r) ELSE Caught(gemini, r, outcome)
    /\ UNCHANGED <<serverVars, clientVars, probeVars, capVars, lookupVars, linkVars>>

\* POST /api/summary/missed-speech with a body whose transcripts are
\* missing ("none"), an empty array ("empty") or an array of entries ("some")
Bodies == {"none", "empty", "some"}

SummarizeMissedSpeech(body) ==
    /\ request.pc # "try"
    /\ request' =
         IF body = "none" THEN [NoRequest EXCEPT !.pc = "done", !.status = 400]
         ELSE IF body = "empty" THEN [NoRequest EXCEPT !.pc = "done", !.status = 200]
         ELSE IF gemini.keys = 0 THEN [NoRequest EXCEPT !.pc = "done", !.status = 503]
         ELSE [NoRequest EXCEPT !.pc = "try",
                                !.startModelIndex = gemini.modelIndex,
                                !.startApiKeyIndex = gemini.apiKeyIndex]
    /\ UNCHANGED <<gemini, serverVars, clientVars, probeVars, capVars, lookupVars, linkVars>>

\* the timer set after a success on a backup key: resetToPrimaryApiKey
ResetToPrimaryApiKey ==
    /\ gemini.keyTimer
    /\ gemini' = IF gemini.apiKeyIndex # 0
                 THEN [gemini EXCEPT !.keyTimer = FALSE, !.apiKeyIndex = 0, !.modelIndex = 0]
                 ELSE [gemini EXCEPT !.keyTimer = FALSE]
    /\ UNCHANGED <<request, serverVars, clientVars, probeVars, capVars, lookupVars, linkVars>>

\* the timer set after a success on a fallback model: resetToPrimaryModel
ResetToPrimaryModel ==
    /\ gemini.modelTimer
    /\ gemini' = [gemini EXCEPT !.modelTimer = FALSE, !.modelIndex = 0]
    /\ UNCHANGED <<request, serverVars, clientVars, probeVars, capVars, lookupVars, linkVars>>

Responds == \E outcome \in Outcomes : Respond(outcome)

\* ------------------------------------- one client's PeerLinks by themselves
\* The browser of the host, followed at the grain of createOffer's awaits.
\* Events reach it in the order the relay sends them: a notice at any time,
\* an offer, answer or candidate from a socket for as long as that socket is
\* connected (the relay forwards for sockets that left the room as well).
Me == "A"
Peer == UserOf(Other(Me))
Remotes == ConnIds \ {sid[Me]}

\* the refs of the component that the handlers below read and write
Refs ==
    [P |-> pcs[Me], T |-> timers[Me],
     pendingOffers |-> pendingOffers,
     pendingIceCandidates |-> pendingIceCandidates,
     remoteDescription |-> remoteDescription,
     added |-> added]

SetRefs(R) ==
    /\ SetLinks(Me, Links(R.P, R.T))
    /\ pendingOffers' = R.pendingOffers
    /\ pendingIceCandidates' = R.pendingIceCandidates
    /\ remoteDescription' = R.remoteDescription
    /\ added' = R.added

\* the part of the refs that is the RTCPeerConnection's own state
Closed(R, socketId) ==
    [R EXCEPT !.remoteDescription[socketId] = FALSE, !.added[socketId] = <<>>]

\* cleanupPeerConnection(socketId): the pending-offer mark and the queued
\* candidates are deleted, the PeerLink is closed and forgotten
CleanupRefs(R, socketId) ==
    IF socketId = Null THEN R
    ELSE LET L == CleanupPeerConnection(Links(R.P, R.T), socketId)
         IN  [Closed(R, socketId) EXCEPT
                 !.P = L.P, !.T = L.T,
                 !.pendingOffers = @ \ {socketId},
                 !.pendingIceCandidates[socketId] = <<>>]

\* a PeerLink made by the user-joined handler (with the handler's own timer)
CreateRefs(R, socketId, shouldInitiate) ==
    LET L == CreateAndSchedule(Links(R.P, R.T), socketId, shouldInitiate)
    IN  [Closed(R, socketId) EXCEPT !.P = L.P, !.T = L.T]

\* a queue that is deleted without being applied
ProcessQueuedIceCandidatesDropping(R, socketId) ==
    [R EXCEPT !.pendingIceCandidates[socketId] = <<>>]

\* processQueuedIceCandidates(socketId)
ProcessQueuedIceCandidates(R, socketId) ==
    IF R.P[socketId] = NoPc \/ R.pendingIceCandidates[socketId] = <<>> THEN R
    ELSE [R EXCEPT !.added[socketId] = @ \o R.pendingIceCandidates[socketId],
                   !.pendingIceCandidates[socketId] = <<>>]

\* handleOffer on the refs when it goes on to answer (see HandleOffer)
HandleOfferRefs(R, localId, senderId) ==
    LET L == Links(R.P, R.T)
        conflicting == /\ L.P[senderId] # NoPc
                       /\ ~IsGlare(L, senderId)
                       /\ L.P[senderId].signalingState \notin {"stable", "have-remote-offer"}
        kept == IF conflicting THEN CleanupRefs(R, senderId) ELSE R
        ready == IF kept.P[senderId] = NoPc THEN Closed(kept, senderId) ELSE kept
        answered == HandleOffer(L, localId, senderId)
    IN  ProcessQueuedIceCandidates(
            [ready EXCEPT !.P = answered.P, !.T = answered.T,
                          !.remoteDescription[senderId] = TRUE],
            senderId)

\* handleAnswer on the refs
HandleAnswerRefs(R, senderId) ==
    LET L == Links(R.P, R.T)
        answered == HandleAnswer(L, senderId)
    IN  IF L.P[senderId] # NoPc /\ L.P[senderId].signalingState = "have-local-offer"
        THEN ProcessQueuedIceCandidates(
                 [R EXCEPT !.P = answered.P, !.T = answered.T,
                           !.remoteDescription[senderId] = TRUE],
                 senderId)
        ELSE R

\* handleIceCandidate: applied when the PeerLink has a remote description,
\* queued otherwise
HandleIceCandidate(R, senderId, candidate) ==
    IF R.P[senderId] # NoPc /\ R.remoteDescription[senderId]
    THEN [R EXCEPT !.added[senderId] = Append(@, candidate)]
    ELSE [R EXCEPT !.pendingIceCandidates[senderId] = Append(@, candidate)]

\* the observer: one more event handled
Arrival == [observed EXCEPT !.arrivals = @ + 1]

LinkFrame ==
    UNCHANGED <<serverVars, probeVars, capVars, svcVars, lookupVars,
                sid, joinPending, inbox, offersSent, freshPairs, glareLog>>

\* socket.on('user-joined') for a notice that names the peer on socket c
HearUserJoined(c) ==
    /\ observed.arrivals < MaxArrivals
    /\ c \in observed.live
    /\ LET existing == participantList[Me][Peer]
           cleaned == IF existing # Null /\ existing # c
                      THEN CleanupRefs(Refs, existing) ELSE Refs
           old == IF existing # Null /\ existing # c THEN {existing} ELSE {}
           makes == cleaned.P[c] = NoPc
       IN  /\ SetRefs(IF makes THEN CreateRefs(cleaned, c, ShouldInitiate(sid[Me], c))
                      ELSE cleaned)
           /\ observed' = [Arrival EXCEPT
                 !.gone = @ \ {c},
                 !.made[c] = @ + (IF makes THEN 1 ELSE 0),
                 !.outstanding = [r \in ConnIds |->
                                     IF r \in old \/ (r = c /\ makes) THEN 0 ELSE @[r]],
                 !.heard = [r \in ConnIds |-> IF r \in old THEN <<>> ELSE @[r]]]
    /\ participantList' = [participantList EXCEPT ![Me][Peer] = c]
    /\ UNCHANGED offerCalls
    /\ LinkFrame

\* socket.on('user-left' | 'user-disconnected' | 'user-kicked') for a notice
\* that names c: handleUserDisconnected.  The socket c itself may stay
\* connected (it left, was kicked, or its user joined over another socket).
HearUserGone(c, stays) ==
    /\ observed.arrivals < MaxArrivals
    /\ c \in Remotes
    /\ SetRefs(CleanupRefs(Refs, c))
    /\ participantList' = [participantList EXCEPT ![Me] =
          [u \in Users |-> IF @[u] = c THEN Null ELSE @[u]]]
    /\ observed' = [Arrival EXCEPT
          !.gone = @ \cup {c},
          !.live = IF stays THEN @ ELSE @ \ {c},
          !.outstanding[c] = 0,
          !.heard[c] = <<>>]
    /\ UNCHANGED offerCalls
    /\ LinkFrame

\* socket.on('offer') for an offer of the connected socket c
HearOffer(c) ==
    /\ observed.arrivals < MaxArrivals
    /\ c \in observed.live
    /\ LET L == MyLinks(Me)
           ignore == OfferIgnored(L, sid[Me], c)
           makes == L.P[c] = NoPc
       IN  /\ SetRefs(IF ignore THEN Refs ELSE HandleOfferRefs(Refs, sid[Me], c))
           /\ observed' = [Arrival EXCEPT
                 !.made[c] = @ + (IF makes THEN 1 ELSE 0),
                 !.outstanding[c] = IF ignore THEN @ ELSE 0]
    /\ UNCHANGED <<participantList, offerCalls>>
    /\ LinkFrame

\* socket.on('answer') for an answer of the connected socket c
HearAnswer(c) ==
    /\ observed.arrivals < MaxArrivals
    /\ c \in observed.live
    /\ SetRefs(HandleAnswerRefs(Refs, c))
    /\ observed' = [Arrival EXCEPT
          !.outstanding[c] = IF IsGlare(MyLinks(Me), c) THEN 0 ELSE @]
    /\ UNCHANGED <<participantList, offerCalls>>
    /\ LinkFrame

\* socket.on('ice-candidate') for a candidate of the connected socket c;
\* candidates are numbered in the order they arrive
HearIceCandidate(c) ==
    /\ observed.arrivals < MaxArrivals
    /\ c \in observed.live
    /\ LET candidate == observed.arrivals + 1
       IN  /\ SetRefs(HandleIceCandidate(Refs, c, candidate))
           /\ observed' = [Arrival EXCEPT !.heard[c] = Append(@, candidate)]
    /\ UNCHANGED <<participantList, offerCalls>>
    /\ LinkFrame

\* a createOffer that does not look at the pending-offer marks
CreateOfferBeginsUnmarked(R, socketId) ==
    CanOffer(Links(R.P, R.T), socketId)

\* createOffer(socketId) up to its first await: the three early returns,
\* then the pending-offer mark; the call waits with the pc it looked up
CreateOfferBegins(R, socketId) ==
    /\ socketId \notin R.pendingOffers
    /\ CanOffer(Links(R.P, R.T), socketId)

BeginCreateOffer(R, socketId) ==
    IF CreateOfferBegins(R, socketId)
    THEN /\ SetRefs([R EXCEPT !.pendingOffers = @ \cup {socketId}])
         /\ offerCalls' = offerCalls \cup
               {[socketId |-> socketId, pc |-> observed.made[socketId],
                 n |-> Cardinality(offerCalls) + 1]}
    ELSE /\ SetRefs(R)
         /\ UNCHANGED offerCalls

\* a setTimeout(() => createOffer(socketId), ...) of the client runs
LinkTimerFires(c) ==
    /\ timers[Me][c] > 0
    /\ BeginCreateOffer([Refs EXCEPT !.T[c] = @ - 1], c)
    /\ UNCHANGED <<participantList, observed>>
    /\ LinkFrame

\* onnegotiationneeded of the PeerLink to c
LinkNegotiationNeeded(c) ==
    /\ pcs[Me][c] # NoPc
    /\ pcs[Me][c].negotiationNeeded
    /\ LET R == [Refs EXCEPT !.P[c].negotiationNeeded = FALSE]
       IN  IF pcs[Me][c].isInitiator
           THEN BeginCreateOffer(R, c)
           ELSE SetRefs(R) /\ UNCHANGED offerCalls
    /\ UNCHANGED <<participantList, observed>>
    /\ LinkFrame

\* the rest of createOffer: setLocalDescription, the emit, and the finally
\* that deletes the mark.  The offer is set (from stable, or over a local
\* offer) and sent on the pc the call looked up.  When that pc was closed in
\* the meantime its pending operation is abandoned without settling, so
\* neither the catch nor the finally of the call ever runs.
EndCreateOffer(call) ==
    /\ call \in offerCalls
    /\ offerCalls' = offerCalls \ {call}
    /\ LET c == call.socketId
           current == pcs[Me][c] # NoPc /\ observed.made[c] = call.pc
           sets == current /\ pcs[Me][c].signalingState \in {"stable", "have-local-offer"}
           unmarked == [Refs EXCEPT !.pendingOffers = @ \ {c}]
       IN  /\ SetRefs(IF sets THEN [unmarked EXCEPT !.P[c].signalingState = "have-local-offer"]
                      ELSE IF current THEN unmarked
                      ELSE Refs)
           /\ observed' = [observed EXCEPT !.outstanding[c] = @ + (IF sets THEN 1 ELSE 0)]
    /\ UNCHANGED participantList
    /\ LinkFrame

AuxIdle == CapIdle /\ SvcIdle /\ LookupIdle /\ LinkIdle

vars == <<serverVars, clientVars, probeVars, auxVars>>
InitiatorInit == ServerInit /\ resident = TRUE /\ ClientInit /\ ProbeInit /\ AuxIdle
SpecInitiator == InitiatorInit /\ [][ProbeNext]_vars
RtcInit == ServerInit /\ ClientInit /\ ProbeIdle /\ AuxIdle
SpecRTC == RtcInit /\ [][RtcNext]_vars
Init == ServerInit /\ ClientInit /\ ProbeIdle /\ AuxIdle
\* the relay and the controller on their own: no client of the model runs
Idle == UNCHANGED <<clientVars, probeVars, auxVars>>
Next ==
    \/ \E c \in ConnIds : Connect(c) /\ Idle
    \/ \E c \in ConnIds, mid \in MeetingIds, u \in Users : JoinMeeting(c, mid, u) /\ Idle
    \/ \E c \in ConnIds, mid \in MeetingIds, u \in Users : LeaveMeeting(c, mid, u) /\ Idle
    \/ \E c \in ConnIds : Disconnect(c) /\ Idle
    \/ \E c \in ConnIds, mid \in MeetingIds, h \in Users, t \in Users, ts \in ConnIds :
          HostMuteParticipant(c, mid, h, t, ts) /\ Idle
    \/ \E c \in ConnIds, mid \in MeetingIds, h \in Users, t \in Users, ts \in ConnIds :
          HostKickParticipant(c, mid, h, t, ts) /\ Idle
    \/ \E mid \in MeetingIds, u \in Users : HttpJoinMeeting(mid, u) /\ Idle
    \/ \E mid \in MeetingIds, u \in Users : HttpLeaveMeeting(mid, u) /\ Idle
    \/ \E mid \in MeetingIds, u \in Users : HttpEndMeeting(mid, u) /\ Idle
Spec == Init /\ [][Next]_vars

\* the relay and the controller with the chat handler as well
ChatNext ==
    \/ Next
    \/ \E c \in ConnIds, mid \in MeetingIds, u \in Users : ChatMessage(c, mid, u) /\ Idle
SpecChat == Init /\ [][ChatNext]_vars

\* the poll handlers of the relay, with connection and join-meeting
PollNext ==
    \/ \E c \in ConnIds : Connect(c) /\ Idle
    \/ \E c \in ConnIds, u \in Users : JoinMeeting(c, "M", u) /\ Idle
    \/ \E c \in ConnIds, mid \in MeetingIds, p \in PollIds, u \in Users :
          CreatePoll(c, mid, p, u, StringPayload) /\ Idle
    \/ \E c \in ConnIds, mid \in MeetingIds, p \in PollIds, u \in Users, o \in OptionIndexes :
          VotePoll(c, mid, p, u, o) /\ Idle

SpecPoll == Init /\ [][PollNext]_vars

\* the poll handlers by themselves, with the options of a create-poll payload
\* as any socket may send them
BallotNext ==
    \/ \E c \in ConnIds : Connect(c) /\ Idle
    \/ \E c \in ConnIds, mid \in MeetingIds, p \in PollIds, u \in Users, options \in PollPayloads :
          CreatePoll(c, mid, p, u, options) /\ Idle
    \/ \E c \in ConnIds, mid \in MeetingIds, p \in PollIds, u \in Users, o \in OptionIndexes :
          VotePoll(c, mid, p, u, o) /\ Idle

SpecBallot == Init /\ [][BallotNext]_vars

\* the meeting store under the routes of the controller and join-meeting
StoreNext ==
    \/ \E c \in ConnIds : Connect(c) /\ Idle
    \/ \E c \in ConnIds, mid \in MeetingIds, u \in Users : JoinMeeting(c, mid, u) /\ Idle
    \/ \E mid \in MeetingIds : HttpGetMeeting(mid) /\ Idle
    \/ \E mid \in MeetingIds, u \in Users : HttpJoinMeeting(mid, u) /\ Idle
    \/ \E mid \in MeetingIds, u \in Users : HttpLeaveMeeting(mid, u) /\ Idle
    \/ \E mid \in MeetingIds, u \in Users : HttpEndMeeting(mid, u) /\ Idle

SpecStore == Init /\ [][StoreNext]_vars

\* ---------------------------------------------------- the bounded logs
\* A meeting in the middle of a long session: the host joined over the
\* first connection and has since sent 499 chat messages, 999 final
\* captions and 498 audio toggles, so that every log is one entry short of
\* its cap.
LongMeeting ==
    [FreshMeeting EXCEPT
        !.participants = <<NewParticipant(HostUser, IdOf(1))>>,
        !.activities = [i \in 1..(ActivityCap - 1) |->
                            IF i = 1 THEN "join"
                            ELSE IF i % 2 = 0 THEN "mute" ELSE "unmute"],
        !.messages = [i \in 1..(MessageCap - 1) |-> TextMessage(HostUser)],
        !.transcript = [i \in 1..(TranscriptCap - 1) |->
                            [userId |-> HostUser, text |-> <<"a">>, isFinal |-> TRUE]]]

CapsInit ==
    /\ connected = {IdOf(1)}
    /\ usedIds = {IdOf(1)}
    /\ room = {IdOf(1)}
    /\ activeSockets = [c \in ConnIds |->
                           IF c = IdOf(1) THEN [userId |-> HostUser, meetingId |-> "M"]
                           ELSE NoSession]
    /\ resident = TRUE
    /\ dbActive = TRUE
    /\ meeting = LongMeeting
    /\ branch = "-"
    /\ emitted = <<>>
    /\ ClientInit /\ ProbeIdle
    /\ arrived = [messages |-> LongMeeting.messages, transcript |-> LongMeeting.transcript]
    /\ events = 0
    /\ SvcIdle /\ LookupIdle /\ LinkIdle

\* the observer notes what the event of the step hands to addMessage and to
\* addTranscript with a text that is not blank
Observe(newMessages, newTranscript) ==
    /\ events < MaxEvents
    /\ events' = events + 1
    /\ arrived' = [messages |-> arrived.messages \o newMessages,
                   transcript |-> arrived.transcript \o newTranscript]
    /\ UNCHANGED <<clientVars, probeVars, svcVars, lookupVars, linkVars>>

Handed(mid, entry) == IF Found(mid) THEN <<entry>> ELSE <<>>

CapsNext ==
    \/ \E c \in ConnIds : Connect(c) /\ Observe(<<>>, <<>>)
    \/ \E c \in ConnIds, mid \in MeetingIds, u \in Users :
          JoinMeeting(c, mid, u) /\ Observe(<<>>, <<>>)
    \/ \E c \in ConnIds, mid \in MeetingIds, u \in Users :
          LeaveMeeting(c, mid, u) /\ Observe(<<>>, <<>>)
    \/ \E ev \in ToggleEvents, c \in ConnIds, mid \in MeetingIds, u \in Users, v \in BOOLEAN :
          Toggle(ev, c, mid, u, v) /\ Observe(<<>>, <<>>)
    \/ \E c \in ConnIds, mid \in MeetingIds, u \in Users :
          ChatMessage(c, mid, u) /\ Observe(Handed(mid, TextMessage(u)), <<>>)
    \/ \E c \in ConnIds, mid \in MeetingIds, u \in Users :
          FileShare(c, mid, u) /\ Observe(Handed(mid, FileMessage(u)), <<>>)
    \/ \E c \in ConnIds, mid \in MeetingIds, p \in PollIds, u \in Users :
          CreatePoll(c, mid, p, u, StringPayload)
          /\ Observe(Handed(mid, PollMessage(p, u, StringPayload)), <<>>)
    \/ \E c \in ConnIds, mid \in MeetingIds, u \in Users, text \in Texts, f \in BOOLEAN :
          Transcript(c, mid, u, text, f)
          /\ Observe(<<>>, IF Trim(text) = <<>> THEN <<>>
                           ELSE Handed(mid, [userId |-> u, text |-> Trim(text), isFinal |-> f]))

SpecCaps == CapsInit /\ [][CapsNext]_vars

\* ---------------------------------------------------- the state updates
\* A meeting both users are in: the host joined over the first connection
\* and the guest over the second, and the host has since toggled the
\* microphone 497 times, which leaves it muted and the activity log one
\* entry short of its cap.  Nothing was said in the chat.
BusyMeeting ==
    [FreshMeeting EXCEPT
        !.participants = << [NewParticipant(HostUser, IdOf(1)) EXCEPT !.isAudioMuted = TRUE],
                            NewParticipant(GuestUser, IdOf(2)) >>,
        !.activities = [i \in 1..(ActivityCap - 1) |->
                            IF i <= 2 THEN "join"
                            ELSE IF i % 2 = 1 THEN "mute" ELSE "unmute"]]

UpdatesInit ==
    /\ connected = {IdOf(1), IdOf(2)}
    /\ usedIds = {IdOf(1), IdOf(2)}
    /\ room = {IdOf(1), IdOf(2)}
    /\ activeSockets = [c \in ConnIds |->
                           IF c = IdOf(1) THEN [userId |-> HostUser, meetingId |-> "M"]
                           ELSE IF c = IdOf(2) THEN [userId |-> GuestUser, meetingId |-> "M"]
                           ELSE NoSession]
    /\ resident = TRUE
    /\ dbActive = TRUE
    /\ meeting = BusyMeeting
    /\ branch = "-"
    /\ emitted = <<>>
    /\ ClientInit /\ ProbeIdle
    /\ arrived = [messages |-> <<>>, transcript |-> <<>>]
    /\ events = 0
    /\ SvcIdle /\ LookupIdle /\ LinkIdle

UpdatesNext ==
    \/ \E c \in ConnIds, mid \in MeetingIds, u \in Users :
          JoinMeeting(c, mid, u) /\ Observe(<<>>, <<>>)
    \/ \E c \in ConnIds, mid \in MeetingIds, u \in Users :
          LeaveMeeting(c, mid, u) /\ Observe(<<>>, <<>>)
    \/ \E ev \in ToggleEvents, c \in ConnIds, mid \in MeetingIds, u \in Users, v \in BOOLEAN :
          Toggle(ev, c, mid, u, v) /\ Observe(<<>>, <<>>)

SpecUpdates == UpdatesInit /\ [][UpdatesNext]_vars

\* ------------------------------------------------- overlapping lookups
\* join-meeting with the round trip of getMeeting to the durable store: a
\* join of a resident meeting goes through in one step, a join of a meeting
\* that is not resident waits, and other joins arrive while it does
\* join-meeting for "M" while the store does not hold it: getMeeting has
\* sent its query to the durable store and the handler waits for the answer
JoinLookupStart(c, userId) ==
    /\ c \in connected
    /\ ~resident
    /\ lookups' = lookups \cup {[socketId |-> c, userId |-> userId]}
    /\ UNCHANGED serverVars

\* the answer arrives: for an active record getMeeting builds a new
\* InMemoryMeeting, puts it into the map under the meetingId (in the place
\* of whatever the map holds by then) and returns it, and the handler
\* carries on with that object
JoinLookupDone(l) ==
    /\ l \in lookups
    /\ lookups' = lookups \ {l}
    /\ JoinWith(l.socketId, "M", l.userId, dbActive, FreshMeeting)
    /\ UNCHANGED <<connected, usedIds, dbActive>>
    /\ LogRoom

StillIdle == UNCHANGED <<clientVars, probeVars, capVars, svcVars, linkVars>>

OverlapNext ==
    \/ \E c \in ConnIds : Connect(c) /\ Idle
    \/ \E c \in ConnIds, u \in Users : resident /\ JoinMeeting(c, "M", u) /\ Idle
    \/ \E c \in ConnIds, u \in Users : JoinLookupStart(c, u) /\ StillIdle
    \/ \E l \in lookups : JoinLookupDone(l) /\ StillIdle

SpecOverlap == Init /\ [][OverlapNext]_vars

\* ------------------------------------------------- the summary service
SummaryInit ==
    ServerInit /\ ClientInit /\ ProbeIdle /\ CapIdle /\ LookupIdle /\ LinkIdle /\ SvcInit

SummaryNext ==
    \/ \E body \in Bodies : SummarizeMissedSpeech(body)
    \/ Responds
    \/ ResetToPrimaryApiKey
    \/ ResetToPrimaryModel

\* the awaited operation settles: every pass of the loop comes to its end
SpecSummary == SummaryInit /\ [][SummaryNext]_vars /\ WF_vars(Responds)

\* ------------------------------------------- the PeerLinks of one client
\* the client holds a socket, every other socket id is connected
LinkInit ==
    /\ ServerInit /\ resident = TRUE /\ ProbeIdle /\ CapIdle /\ SvcIdle /\ LookupIdle
    /\ sid \in { [cl \in Clients |-> IF cl = Me THEN c ELSE Null] : c \in ConnIds }
    /\ joinPending = [cl \in Clients |-> FALSE]
    /\ participantList = [cl \in Clients |-> [u \in Users |-> Null]]
    /\ pcs = [cl \in Clients |-> [r \in ConnIds |-> NoPc]]
    /\ timers = [cl \in Clients |-> [r \in ConnIds |-> 0]]
    /\ inbox = [cl \in Clients |-> <<>>]
    /\ offersSent = {}
    /\ freshPairs = {}
    /\ glareLog = NoGlare
    /\ pendingOffers = {}
    /\ pendingIceCandidates = [c \in ConnIds |-> <<>>]
    /\ remoteDescription = [c \in ConnIds |-> FALSE]
    /\ added = [c \in ConnIds |-> <<>>]
    /\ offerCalls = {}
    /\ observed = [NoObservation EXCEPT !.live = Remotes]

LinkNext ==
    \/ \E c \in ConnIds : HearUserJoined(c)
    \/ \E c \in ConnIds, stays \in BOOLEAN : HearUserGone(c, stays)
    \/ \E c \in ConnIds : HearOffer(c)
    \/ \E c \in ConnIds : HearAnswer(c)
    \/ \E c \in ConnIds : HearIceCandidate(c)
    \/ \E c \in ConnIds : LinkTimerFires(c)
    \/ \E c \in ConnIds : LinkNegotiationNeeded(c)
    \/ \E call \in offerCalls : EndCreateOffer(call)

SpecLink == LinkInit /\ [][LinkNext]_vars

SignalEvents == {"offer", "answer", "ice-candidate"}
SignalNext ==
    \/ \E c \in ConnIds : Connect(c) /\ Idle
    \/ \E c \in ConnIds, u \in Users : JoinMeeting(c, "M", u) /\ Idle
    \/ \E c \in ConnIds : Disconnect(c) /\ Idle
    \/ \E ev \in SignalEvents, c \in ConnIds, target \in ConnIds, payload \in Payloads :
          RelaySignal(ev, c, target, payload) /\ Idle
SpecSignal == Init /\ [][SignalNext]_vars

\* ================================================================ claims
Participants == meeting.participants
EntriesOf(m, userId) == { i \in 1..Len(m.participants) : m.participants[i].userId = userId }
JoinWentThrough == branch \in {"insert", "reconnect", "bind", "same"}
\* the reply of the join handler that ran in the last step
JoinedReply == emitted[Len(emitted) - 1]

\* C1: in every reachable state the participants list of the meeting holds
\* at most one entry per userId.
C1_UniqueUserIds ==
    \A i, j \in 1..Len(Participants) :
        Participants[i].userId = Participants[j].userId => i = j

\* a rejoin of a listed user has just been processed, with another user listed
C1_Witness ==
    /\ branch \in {"reconnect", "same"}
    /\ Len(Participants) = 2

\* C6: a join of a user whose entry is bound to another socket id sends the
\* disconnected notice naming the old id to the other members of the room,
\* binds the entry to the new id and leaves one entry of the user.
C6_ReconnectReplaces ==
    [][ \A c \in ConnIds, u \in Users :
          ( /\ JoinMeeting(c, "M", u)
            /\ resident /\ meeting.isActive
            /\ \E i \in EntriesOf(meeting, u) :
                  Participants[i].socketId \notin {Null, c} )
          => LET old == Participants[CHOOSE i \in EntriesOf(meeting, u) : TRUE].socketId
             IN  /\ \E k \in 1..Len(emitted') :
                       /\ emitted'[k].ev = "user-disconnected"
                       /\ emitted'[k].socketId = old
                       /\ emitted'[k].userId = u
                       /\ emitted'[k].to = room' \ {c}
                 /\ Cardinality(EntriesOf(meeting', u)) = 1
                 /\ \A i \in EntriesOf(meeting', u) : meeting'.participants[i].socketId = c
    ]_vars

\* a reconnecting join has run and another member of the room got the notice
C6_Witness ==
    /\ branch = "reconnect"
    /\ emitted[1].ev = "user-disconnected"
    /\ emitted[1].to # {}
    /\ Cardinality(EntriesOf(meeting, emitted[1].userId)) = 1

\* C8: a join of a user whose entry is already bound to the joining socket
\* leaves the participants list as it was, flags and socket id included.
C8_JoinIdempotent ==
    [][ \A c \in ConnIds, u \in Users :
          ( /\ JoinMeeting(c, "M", u)
            /\ resident /\ meeting.isActive
            /\ \E i \in EntriesOf(meeting, u) : Participants[i].socketId = c )
          => meeting'.participants = meeting.participants
    ]_vars

\* a repeated join has run on an entry whose flags are not the initial ones
C8_Witness ==
    /\ branch = "same"
    /\ \E i \in 1..Len(Participants) :
          /\ Participants[i].userId = JoinedReply.userId
          /\ Participants[i].socketId = JoinedReply.socketId
          /\ Participants[i].isAudioMuted

\* the meeting id names nothing resident and nothing active in durable storage
Unknown(mid) == mid # "M" \/ (~resident /\ ~dbActive)
\* the meeting has been ended
Ended(mid) == mid = "M" /\ resident /\ ~meeting.isActive

\* C9: a join that names an unknown or ended meeting is answered with an
\* error to the requester only; no participant is added, the socket enters
\* neither the room nor the registry, nothing is broadcast.
C9_JoinRejected ==
    [][ \A c \in ConnIds, mid \in MeetingIds, u \in Users :
          (JoinMeeting(c, mid, u) /\ (Unknown(mid) \/ Ended(mid)))
          => /\ Len(emitted') = 1
             /\ emitted'[1].ev = "error"
             /\ emitted'[1].to = {c}
             /\ meeting' = meeting
             /\ resident' = resident
             /\ room' = room
             /\ activeSockets' = activeSockets
    ]_vars

\* a join of an ended meeting that still has members has been rejected
C9_Witness ==
    /\ branch = "rejected"
    /\ Ended("M")
    /\ room # {}
    /\ Len(Participants) > 0
    /\ \E c \in connected : emitted[1].to = {c} /\ c \notin room

\* C10: the roster sent to a joiner lists only other participants that have
\* a live connection: never the joiner, never a disconnected participant.
C10_RosterIsLiveOthers ==
    JoinWentThrough =>
        \A k \in 1..Len(JoinedReply.roster) :
            /\ JoinedReply.roster[k].userId # JoinedReply.userId
            /\ JoinedReply.roster[k].socketId # JoinedReply.socketId
            /\ JoinedReply.roster[k].socketId \in connected

\* ----------------------------------------- claims on the initiator test
\* C2: when both sides have computed the test, each at one of the places
\* that create a PeerLink, exactly one of them is to initiate, and it is the
\* side for which local < remote.
C2_ExactlyOneInitiates ==
    (\A side \in Sides : decision[side].path # "-") =>
        /\ decision["a"].shouldInitiate # decision["b"].shouldInitiate
        /\ decision["a"].shouldInitiate = StrLess(idA, idB)
        /\ decision["b"].shouldInitiate = StrLess(idB, idA)

\* both sides have decided, at different places, on ids that begin alike
C2_Witness ==
    /\ decision["a"].path = "joined-meeting"
    /\ decision["b"].path = "user-joined"
    /\ Head(idA) = Head(idB)
    /\ Len(idA) < Len(idB)
    /\ decision["a"].shouldInitiate

\* ------------------------------------------------- claims on the client
Quiet == \A cl \in Clients : inbox[cl] = <<>>
PeerId(cl) == sid[Other(cl)]
\* the PeerLink a client holds to the socket its peer holds now
LinkToPeer(cl) == pcs[cl][PeerId(cl)]
BothOpen == \A cl \in Clients : sid[cl] # Null

\* the socket a of the other client is live in the meeting
LiveInMeeting(a) ==
    /\ a # Null
    /\ a \in connected
    /\ a \in room
    /\ \E i \in 1..Len(Participants) : Participants[i].socketId = a

OffersFromSmallerOfFreshPairs ==
    \A o \in offersSent : {o[1], o[2]} \in freshPairs => StrLess(o[1], o[2])

\* C3: when a client joins for the first time a meeting in which the other
\* has a live connection, its roster lists that connection and the other is
\* sent the joined notice; an offer between the two is only ever sent by the
\* side whose socket id is the smaller.
C3_FirstJoin ==
    [][ /\ \A cl \in Clients :
             ( /\ RelayJoin(cl)
               /\ branch' \in {"insert", "bind"}
               /\ LiveInMeeting(PeerId(cl)) )
             => /\ \E k \in 1..Len(emitted') :
                      /\ emitted'[k].ev = "joined-meeting"
                      /\ emitted'[k].to = {sid[cl]}
                      /\ \E j \in 1..Len(emitted'[k].roster) :
                            emitted'[k].roster[j].socketId = PeerId(cl)
                /\ inbox'[Other(cl)] # <<>>
                /\ LET notice == inbox'[Other(cl)][Len(inbox'[Other(cl)])]
                   IN  /\ notice.ev = "user-joined"
                       /\ notice.socketId = sid[cl]
                       /\ notice.userId = UserOf(cl)
        /\ OffersFromSmallerOfFreshPairs'
    ]_vars

\* the first offer of a pair formed by a first join was sent and answered
C3_Witness ==
    \E cl \in Clients :
        /\ BothOpen
        /\ {sid[cl], PeerId(cl)} \in freshPairs
        /\ <<sid[cl], PeerId(cl)>> \in offersSent
        /\ LinkToPeer(cl).signalingState = "stable"
        /\ ~LinkToPeer(cl).negotiationNeeded
        /\ LinkToPeer(cl).isInitiator
        /\ LinkToPeer(Other(cl)).signalingState = "stable"
        /\ ~LinkToPeer(Other(cl)).isInitiator

\* the relay's answer event for an offer handled by cl
AnswerOf(cl, senderId) == SignalMsg("answer", senderId, sid[cl], SessionDescription)

RolledBackAndAnswered(cl, senderId) ==
    /\ pcs'[cl][senderId].signalingState = "stable"
    /\ emitted' = <<AnswerOf(cl, senderId)>>
    /\ inbox'[Other(cl)] = inbox[Other(cl)] \o SentTo(emitted', PeerId(cl))

KeptOwnOffer(cl, senderId) ==
    /\ pcs'[cl][senderId] = pcs[cl][senderId]
    /\ inbox'[Other(cl)] = inbox[Other(cl)]
    /\ emitted' = emitted

GlareAt(cl) ==
    /\ OnOffer(cl)
    /\ IsGlare(MyLinks(cl), Head(inbox[cl]).socketId)

C5_GlareResolves ==
    (Quiet /\ BothOpen /\ glareLog.collisions > 0) =>
        /\ glareLog.rolledBack = glareLog.collisions
        /\ glareLog.ignored = glareLog.collisions
        /\ \A cl \in Clients : LinkToPeer(cl).signalingState = "stable"

\* a glare has been resolved and nothing is in flight
C5_Witness ==
    /\ Quiet
    /\ BothOpen
    /\ glareLog = [collisions |-> 1, rolledBack |-> 1, ignored |-> 1]
    /\ \A cl \in Clients : LinkToPeer(cl).signalingState = "stable"

\* the client has handled the roster of the join under its current socket
Settled(cl) ==
    /\ sid[cl] # Null
    /\ ~joinPending[cl]
    /\ \A k \in 1..Len(inbox[cl]) : inbox[cl][k].ev # "joined-meeting"

\* every createOffer call the client has scheduled for its peer has run
NothingScheduled(cl) ==
    /\ timers[cl][PeerId(cl)] = 0
    /\ ~(LinkToPeer(cl).negotiationNeeded /\ LinkToPeer(cl).isInitiator)

\* C7: a client that has handled the roster of its join holds no PeerLink
\* to its peer whose initiator flag differs from the comparison of the
\* current socket ids; and once both clients have done so and nothing is
\* in flight or scheduled, the side with the smaller current id has sent
\* the offer.
C7_InitiatorByCurrentIds ==
    /\ \A cl \in Clients :
          (BothOpen /\ Settled(cl) /\ LinkToPeer(cl) # NoPc)
          => LinkToPeer(cl).isInitiator = StrLess(sid[cl], PeerId(cl))
    /\ ( /\ Quiet
         /\ BothOpen
         /\ \A cl \in Clients :
               Settled(cl) /\ LinkToPeer(cl) # NoPc /\ NothingScheduled(cl) )
       => \E cl \in Clients :
             /\ StrLess(sid[cl], PeerId(cl))
             /\ <<sid[cl], PeerId(cl)>> \in offersSent


\* ------------------------------------- claims on disconnect and leave
\* the connection is bound to a session in the connection registry
Registered(c) == activeSockets[c] # NoSession
Listed(m, userId) == EntriesOf(m, userId) # {}
\* the step is a Leave (over the socket or over HTTP) or a Kick of userId
LeavesOrKicked(userId) ==
    \/ \E c \in ConnIds, mid \in MeetingIds : LeaveMeeting(c, mid, userId)
    \/ \E mid \in MeetingIds : HttpLeaveMeeting(mid, userId)
    \/ \E c \in ConnIds, mid \in MeetingIds, h \in Users, ts \in ConnIds :
          HostKickParticipant(c, mid, h, userId, ts)

\* C11: the disconnect of a connection bound to a session broadcasts the
\* disconnected notice naming that connection and its user to the rest of
\* the room and leaves the participants list as it was; an entry leaves the
\* list only in a Leave or a Kick of its user (the end of the meeting
\* removes none).
C11_DisconnectKeepsParticipant ==
    [][ /\ \A c \in ConnIds :
              (Registered(c) /\ Disconnect(c))
              => /\ emitted' = << Msg("user-disconnected", room \ {c},
                                      activeSockets[c].userId, c, <<>>) >>
                 /\ meeting'.participants = meeting.participants
        /\ \A u \in Users :
              (resident /\ Listed(meeting, u) /\ ~Listed(meeting', u))
              => LeavesOrKicked(u)
    ]_vars

\* a registered connection has been dropped while another member was in the
\* room, and its user is still listed under the dead socket id
C11_Witness ==
    /\ branch = "-"
    /\ Len(emitted) = 1
    /\ emitted[1].ev = "user-disconnected"
    /\ emitted[1].to # {}
    /\ emitted[1].socketId \notin connected
    /\ \E i \in EntriesOf(meeting, emitted[1].userId) :
          Participants[i].socketId = emitted[1].socketId

\* C12: a Leave of userId for the meeting leaves no entry of userId, appends
\* one 'leave' activity when there was an entry and none when there was not,
\* broadcasts the left notice to the rest of the room, and takes the sending
\* connection out of the room and out of the connection registry.
C12_LeaveRemoves ==
    [][ \A c \in ConnIds, u \in Users :
          (Found("M") /\ LeaveMeeting(c, "M", u))
          => LET m0 == Resolved("M")
             IN  /\ ~Listed(meeting', u)
                 /\ meeting'.activities =
                      IF Listed(m0, u) THEN Append(m0.activities, "leave")
                      ELSE m0.activities
                 /\ emitted' = << Msg("user-left", room \ {c}, u, c, <<>>) >>
                 /\ c \notin room'
                 /\ ~Registered(c)'
    ]_vars

\* a member of a room with another member has left, its user was listed
C12_Witness ==
    /\ Len(emitted) = 1
    /\ emitted[1].ev = "user-left"
    /\ emitted[1].to # {}
    /\ emitted[1].socketId \in connected \ room
    /\ ~Listed(meeting, emitted[1].userId)
    /\ Len(meeting.activities) > 0
    /\ meeting.activities[Len(meeting.activities)] = "leave"

\* ------------------------------------------ claims on the host controls
\* C13: a mute or kick command whose hostUserId is not the host of the
\* meeting changes no participant, no log, no room membership and no
\* registry entry, and emits nothing: no instruction, no broadcast, no error.
C13_NonHostIgnored ==
    [][ \A c \in ConnIds, mid \in MeetingIds, h \in Users, t \in Users, ts \in ConnIds :
          ( /\ h # Resolved(mid).host
            /\ \/ HostMuteParticipant(c, mid, h, t, ts)
               \/ HostKickParticipant(c, mid, h, t, ts) )
          => /\ Resolved(mid)' = Resolved(mid)
             /\ room' = room
             /\ activeSockets' = activeSockets
             /\ connected' = connected
             /\ emitted' = <<>>
    ]_vars

\* a command of a requester that is not the host has been turned down in a
\* meeting with a listed participant and a member in the room
C13_Witness ==
    /\ branch = "denied"
    /\ Len(Participants) > 0
    /\ room # {}

\* the user the connection joined as ("-" when it has no session)
JoinedAs(c) == activeSockets[c].userId

\* C14: a mute or kick command that arrives on a connection that joined the
\* meeting as a user other than the host changes nothing and emits nothing,
\* whatever hostUserId its payload carries.
C14_SenderMustBeHost ==
    [][ \A c \in ConnIds, mid \in MeetingIds, h \in Users, t \in Users, ts \in ConnIds :
          ( /\ Registered(c)
            /\ activeSockets[c].meetingId = mid
            /\ JoinedAs(c) # Resolved(mid).host
            /\ \/ HostMuteParticipant(c, mid, h, t, ts)
               \/ HostKickParticipant(c, mid, h, t, ts) )
          => /\ Resolved(mid)' = Resolved(mid)
             /\ room' = room
             /\ activeSockets' = activeSockets
             /\ emitted' = <<>>
    ]_vars

\* the host's command is carried out: the meeting is found and the payload
\* names its host
Authorized(mid, h) == Found(mid) /\ IsHost(Resolved(mid), h)
\* the socket id recorded in the entry of userId (Null when there is none)
RecordedSocket(m, userId) ==
    IF Listed(m, userId) THEN m.participants[GetParticipant(m, userId)].socketId ELSE Null

KickedOut(c) ==
    /\ c \in connected \ room
    /\ Registered(c)
    /\ activeSockets[c].meetingId = "M"

\* C16: an authorized kick of user U takes the connection recorded for U
\* out of the room, whatever target connection id the command carries; and
\* a chat message that a kicked connection sends for the meeting before it
\* joins again is neither stored nor emitted.
C16_KickSevers ==
    [][ /\ \A c \in ConnIds, h \in Users, t \in Users, ts \in ConnIds :
              (Authorized("M", h) /\ HostKickParticipant(c, "M", h, t, ts))
              => RecordedSocket(Resolved("M"), t) \notin room'
        /\ \A c \in ConnIds, u \in Users :
              (KickedOut(c) /\ ChatMessage(c, "M", u))
              => /\ meeting'.messages = meeting.messages
                 /\ emitted' = <<>>
    ]_vars

\* C17: an authorized mute of a listed participant T sets T's isAudioMuted,
\* sends force-mute to the connection recorded for T and to no other
\* connection, and broadcasts T's audio state to the whole room.
C17_MuteInstructsRecorded ==
    [][ \A c \in ConnIds, h \in Users, t \in Users, ts \in ConnIds :
          ( /\ Authorized("M", h)
            /\ Listed(Resolved("M"), t)
            /\ HostMuteParticipant(c, "M", h, t, ts) )
          => /\ meeting'.participants[GetParticipant(meeting', t)].isAudioMuted
             /\ Len(emitted') = 2
             /\ emitted'[1].ev = "force-mute"
             /\ emitted'[1].to = {RecordedSocket(Resolved("M"), t)} \cap connected
             /\ emitted'[2].ev = "audio-toggled"
             /\ emitted'[2].userId = t
             /\ emitted'[2].to = room
    ]_vars

\* ------------------------------------------- claims on connection ids
\* C18: in every reachable state no two entries of the participants list
\* hold the same non-null socket id.
C18_SocketIdsUnique ==
    \A i, j \in 1..Len(Participants) :
        (Participants[i].socketId # Null
            /\ Participants[i].socketId = Participants[j].socketId) => i = j

\* ------------------------------------------ claims on the signaling relay
\* the relay's own state: meeting, participants, room and registries
RelayState == <<connected, usedIds, room, activeSockets, resident, meeting, dbActive>>

\* C19: the relay of an offer, an answer or a candidate emits one message of
\* the same event with the body it was given, to the target connection and
\* to no other, tagged with the id of the socket it arrived on whatever
\* sender the client put into it, and changes nothing of the relay's state.
C19_RelayVerbatim ==
    [][ \A ev \in SignalEvents, c \in ConnIds, target \in ConnIds, payload \in Payloads :
          RelaySignal(ev, c, target, payload)
          => /\ Len(emitted') = 1
             /\ emitted'[1].ev = ev
             /\ emitted'[1].payload = payload.body
             /\ emitted'[1].socketId = c
             /\ emitted'[1].to \subseteq {target}
             /\ target \in connected => emitted'[1].to = {target}
             /\ RelayState' = RelayState
    ]_vars

\* a signaling message has been delivered to a live connection other than
\* its sender, in a meeting with a listed participant
C19_Witness ==
    /\ Len(emitted) = 1
    /\ emitted[1].ev \in SignalEvents
    /\ emitted[1].to = {emitted[1].target}
    /\ emitted[1].socketId # emitted[1].target
    /\ emitted[1].socketId \in connected
    /\ Len(Participants) > 0

\* C20: a signaling message addressed to a connection id that is not
\* connected, or no longer is, reaches no connection (the sender included,
\* so no error reaches it) and changes nothing of the relay's state.
C20_DeadTargetDropped ==
    [][ \A ev \in SignalEvents, c \in ConnIds, target \in ConnIds, payload \in Payloads :
          (target \notin connected /\ RelaySignal(ev, c, target, payload))
          => /\ \A k \in 1..Len(emitted') : emitted'[k].to = {}
             /\ RelayState' = RelayState
    ]_vars

\* a signaling message addressed to a connection that was dropped has been
\* handled, and reached nobody
C20_Witness ==
    /\ Len(emitted) = 1
    /\ emitted[1].ev \in SignalEvents
    /\ emitted[1].target \in usedIds \ connected
    /\ emitted[1].to = {}
    /\ emitted[1].socketId \in connected

\* ------------------------------------------------------------------ C21
\* the options of the stored poll pollId whose voter list holds userId
VotedOptions(m, pollId, userId) ==
    LET i == PollIndex(m, pollId)
    IN  IF i = 0 THEN {}
        ELSE {k \in 1..Len(m.messages[i].options) :
                \E v \in 1..Len(m.messages[i].options[k].votes) :
                    m.messages[i].options[k].votes[v] = userId}

\* C21: after a vote-poll event of a user on a stored poll, with any
\* optionIndex, exactly one option's voter list contains that user.
C21_OneVotePerUser ==
    [][\A c \in ConnIds, p \in PollIds, u \in Users, o \in OptionIndexes :
          (Found("M") /\ PollIndex(Resolved("M"), p) # 0 /\ VotePoll(c, "M", p, u, o))
          => Cardinality(VotedOptions(meeting', p, u)) = 1]_vars

\* the same with at most one in the place of exactly one
C21_AtMostOne ==
    \A p \in PollIds, u \in Users : Cardinality(VotedOptions(meeting, p, u)) <= 1

\* ------------------------------------------------------------------ C22
\* C22: in every reachable state the messages log has at most 500 entries,
\* the transcript at most 1000 and the activities log at most 500.
C22_LogsBounded ==
    /\ Len(meeting.messages) <= MessageCap
    /\ Len(meeting.transcript) <= TranscriptCap
    /\ Len(meeting.activities) <= ActivityCap

\* a log is full after more entries were handed to it than it holds
C22_Witness ==
    \/ Len(meeting.messages) = MessageCap /\ Len(arrived.messages) > MessageCap
    \/ Len(meeting.transcript) = TranscriptCap /\ Len(arrived.transcript) > TranscriptCap

\* ------------------------------------------------------------------ C23
\* the last min(Len(s), cap) entries of s
LastOf(s, cap) ==
    IF Len(s) <= cap THEN s ELSE SubSeq(s, Len(s) - cap + 1, Len(s))

\* C23: after n accepted appends the messages log and the transcript equal
\* the last min(n, cap) accepted entries, in arrival order.
C23_OldestEvicted ==
    /\ meeting.messages = LastOf(arrived.messages, MessageCap)
    /\ meeting.transcript = LastOf(arrived.transcript, TranscriptCap)

\* an entry has been evicted from the messages log, whose two newest
\* entries differ
C23_Witness ==
    /\ Len(arrived.messages) > MessageCap
    /\ meeting.messages[MessageCap] # meeting.messages[MessageCap - 1]

\* ------------------------------------------------------------------ C24
\* C24: every entry stored in the transcript has isFinal = true; an event
\* with isFinal = false goes to the rest of the room, is not appended and
\* displaces no final entry.
C24_OnlyFinalStored ==
    \A i \in 1..Len(meeting.transcript) : meeting.transcript[i].isFinal

C26_EndIsTerminal ==
    [][Ended("M")
       => /\ Ended("M")'
          /\ ~dbActive'
          /\ \A c \in ConnIds, u \in Users :
                JoinMeeting(c, "M", u)
                => /\ branch' = "rejected"
                   /\ meeting' = meeting
                   /\ room' = room
          /\ \A u \in Users : HttpJoinMeeting("M", u) => meeting' = meeting
          /\ HttpGetMeeting("M") => branch' = "404"
    ]_vars

\* the host has ended a meeting that had a participant, and a join over a
\* socket was turned away after that
C26_Witness ==
    /\ Ended("M")
    /\ ~dbActive
    /\ branch = "rejected"
    /\ \E i \in 1..Len(meeting.participants) : meeting.participants[i].userId = GuestUser
    /\ \E c \in connected : emitted[1].to = {c} /\ activeSockets[c] = NoSession

\* ------------------------------------------------------------------ C27
\* C27: a host-mute or host-kick command that names an ended meeting is
\* treated as meeting-not-found: no participant state changes, no
\* instruction is sent and nothing is broadcast, even for the host.
C27_EndedMeetingIgnored ==
    [][\A c \in ConnIds, h \in Users, t \in Users, ts \in ConnIds :
          (/\ Ended("M")
           /\ \/ HostMuteParticipant(c, "M", h, t, ts)
              \/ HostKickParticipant(c, "M", h, t, ts))
          => /\ meeting' = meeting
             /\ room' = room
             /\ emitted' = <<>>
    ]_vars

\* ------------------------------------------------------------------ C28
\* C28: a call through executeWithFallback ends, whatever errors the
\* external service returns; the operation is invoked at most
\* (number of keys + 1) x maxRetries times before it does; and no step of
\* the call changes a meeting, a participant or the connection registry.
C28_FallbackTerminates ==
    /\ [](request.invoked <= (gemini.keys + 1) * MaxRetries)
    /\ (request.pc = "try") ~> (request.pc = "done")
    /\ [][Responds => UNCHANGED serverVars]_vars

\* a call has ended with an error after it went through every model of
\* every key
C28_Witness ==
    /\ request.pc = "done"
    /\ request.thrown = AllQuotaExceeded
    /\ request.invoked = gemini.keys * ModelCount
    /\ gemini.keys = MaxKeys

\* ------------------------------------------------------------------ C29
\* C29: a failed missed-speech request is answered with a status that tells
\* the failures apart: 429 when every key and model is exhausted by rate
\* limits, 503 when all models are unavailable, 500 for any other failure.
C29_StatusTellsApart ==
    (request.pc = "done" /\ request.thrown # <<>>)
    => request.status = IF request.thrown = AllQuotaExceeded THEN 429
                        ELSE IF request.thrown = AllModelsUnavailable THEN 503
                        ELSE 500

\* ------------------------------------------------------------------ C30
\* C30: when joins of a meeting that is not resident overlap in their
\* lookups, every joiner ends up a participant of the one meeting that
\* stays resident: the completion of a lookup loses no participant that an
\* earlier join added, and the roster sent to the later joiner has the
\* earlier one.
C30_OverlappingJoinsKeepBoth ==
    [][\A l \in lookups :
          (resident /\ JoinLookupDone(l))
          => /\ \A i \in 1..Len(meeting.participants) :
                   Listed(meeting', meeting.participants[i].userId)
             /\ \A i \in 1..Len(meeting.participants) :
                   LET p == meeting.participants[i]
                   IN  (p.userId # l.userId /\ p.socketId \in connected \ {l.socketId}
                        /\ branch' # "rejected")
                       => \E k \in 1..Len(emitted') :
                            /\ emitted'[k].ev = "joined-meeting"
                            /\ \E j \in 1..Len(emitted'[k].roster) :
                                 emitted'[k].roster[j].userId = p.userId
    ]_vars
\* ------------------------------------------------------------------ C31
\* the socket id the entry of userId is bound to (Null when it has none)
BoundTo(m, userId) ==
    IF EntriesOf(m, userId) = {} THEN Null
    ELSE m.participants[CHOOSE i \in EntriesOf(m, userId) : TRUE].socketId

\* C31: while a live connection c1 is in the room and registered for a user
\* whose entry was bound to it, a join that binds the entry of that user to
\* another connection c2 sends the disconnected notice naming c1 to the
\* room, also when the HTTP join of the user ran in between.
C31_RebindingAnnounced ==
    [][\A c1 \in ConnIds, c2 \in ConnIds, u \in Users :
          (/\ c1 # c2
           /\ c1 \in connected /\ c1 \in room
           /\ activeSockets[c1] = [userId |-> u, meetingId |-> "M"]
           /\ EntriesOf(meeting, u) # {}
           /\ BoundTo(meeting, u) # c2
           /\ JoinMeeting(c2, "M", u)
           /\ BoundTo(meeting', u) = c2)
          => \E k \in 1..Len(emitted') :
                /\ emitted'[k].ev = "user-disconnected"
                /\ emitted'[k].socketId = c1
    ]_vars

\* ------------------------------------------------------------------ C32
\* C32: when a reconnecting join has been processed, the connection the
\* entry was bound to before is released: it has no session in the
\* registry and it is not a member of the room of the meeting.
C32_OldConnectionReleased ==
    branch = "reconnect"
    => LET old == emitted[1].socketId
       IN  /\ emitted[1].ev = "user-disconnected"
           /\ activeSockets[old] = NoSession
           /\ old \notin room

\* ------------------------------------------------------------------ C33
\* the entries of userId in the participants list
EntryOf(m, userId) == { m.participants[i] : i \in EntriesOf(m, userId) }

\* C33: a toggle-audio, toggle-video, raise-hand, screen-share or
\* leave-meeting event on a connection leaves the entry of every user other
\* than the one registered for that connection as it was.
C33_OnlyOwnEntry ==
    [][\A c \in ConnIds, mid \in MeetingIds, u \in Users :
          (\/ LeaveMeeting(c, mid, u)
           \/ \E ev \in ToggleEvents, v \in BOOLEAN : Toggle(ev, c, mid, u, v))
          => \A w \in Users :
                w # activeSockets[c].userId => EntryOf(meeting', w) = EntryOf(meeting, w)
    ]_vars

\* ------------------------------------------------------------------ C34
\* the activity type that belongs to setting the flag of an event to a value
MatchingType(ev, value) ==
    CASE ev = "toggle-audio" -> IF value THEN "mute" ELSE "unmute"
      [] ev = "toggle-video" -> IF value THEN "video-off" ELSE "video-on"
      [] ev = "raise-hand" -> IF value THEN "hand-raise" ELSE "hand-lower"
      [] ev = "screen-share" -> IF value THEN "screen-share-start" ELSE "screen-share-stop"

\* new is old with one entry pushed (the oldest dropped when the log was full)
OneAppended(old, new, type) ==
    new = IF Len(old) >= ActivityCap THEN Tail(old) \o <<type>> ELSE old \o <<type>>

C35_GoneStaysGone ==
    \A c \in observed.gone :
        /\ pcs[Me][c] = NoPc
        /\ c \notin pendingOffers
        /\ pendingIceCandidates[c] = <<>>

\* ------------------------------------------------------------------ C36
\* C36: a candidate is given to a PeerLink only once its remote description
\* is set; until then it waits in the queue of its sender, and the setting
\* of the remote description empties the queue into the PeerLink: the
\* candidates received for a socket id are, in arrival order, those its
\* PeerLink was given followed by those still queued.
C36_CandidatesKept ==
    \A c \in ConnIds :
        /\ added[c] # <<>> => pcs[Me][c] # NoPc /\ remoteDescription[c]
        /\ pcs[Me][c] # NoPc /\ remoteDescription[c] => pendingIceCandidates[c] = <<>>
        /\ observed.heard[c] = added[c] \o pendingIceCandidates[c]

\* two candidates arrived before anything else, then the description that
\* let them through
C36_Witness ==
    \E c \in ConnIds :
        /\ observed.arrivals = 3
        /\ added[c] = <<1, 2>>
        /\ remoteDescription[c]

\* ------------------------------------------------------------------ C37
\* C37: on no PeerLink of the client are two offers outstanding, that is
\* sent and neither answered nor rolled back; and a call of createOffer
\* goes to work only for a socket id without a pending-offer mark whose
\* PeerLink is stable.
C37_OneOfferOutstanding ==
    /\ [](\A c \in ConnIds : observed.outstanding[c] <= 1)
    /\ [][\A call \in offerCalls' \ offerCalls :
             /\ call.socketId \notin pendingOffers
             /\ pcs[Me][call.socketId].signalingState = "stable"
             /\ \A other \in offerCalls :
                   other.socketId = call.socketId => other.pc # call.pc
         ]_vars

\* the first createOffer for an initiating PeerLink is at its await, and the
\* two other callers have come and gone
C37_Witness ==
    \E c \in ConnIds :
        /\ pcs[Me][c] # NoPc /\ pcs[Me][c].isInitiator
        /\ ~pcs[Me][c].negotiationNeeded
        /\ timers[Me][c] = 0
        /\ observed.made[c] = 1
        /\ pcs[Me][c].signalingState = "stable" /\ ~remoteDescription[c]
        /\ c \in pendingOffers
        /\ \E call \in offerCalls : call.socketId = c


\* ------------------------------------------------------------------ C38
\* the voter set of an option: the userIds of its voter list
Voters(option) == {option.votes[v] : v \in 1..Len(option.votes)}

\* the options of the first stored poll pollId, none when no such poll is stored
StoredOptions(m, pollId) ==
    IF PollIndex(m, pollId) = 0 THEN <<>> ELSE m.messages[PollIndex(m, pollId)].options

\* the stored poll is as a vote of userId for option k (1-based) leaves it:
\* userId is once in option k's voter list and in no other's, and every count
\* is the length of its list
VotedFor(m, pollId, userId, k) ==
    LET options == StoredOptions(m, pollId)
    IN  /\ k \in 1..Len(options)
        /\ VotedOptions(m, pollId, userId) = {k}
        /\ Len(SelectSeq(options[k].votes, LAMBDA v : v = userId)) = 1
        /\ \A j \in 1..Len(options) : options[j].count = Len(options[j].votes)

\* C38: a vote-poll event of user u with a valid optionIndex i on a stored
\* poll leaves u in option i's voter set and in no other option's, whatever
\* the voter lists held before; and when the poll already is as that vote
\* leaves it, the same vote changes no option's voter set and no count.
C38_LastVoteWins ==
    [][\A c \in ConnIds, p \in PollIds, u \in Users, o \in 0..(NumOptions - 1) :
          (Found("M") /\ PollIndex(Resolved("M"), p) # 0 /\ VotePoll(c, "M", p, u, o))
          => /\ VotedFor(meeting', p, u, o + 1)
             /\ VotedFor(Resolved("M"), p, u, o + 1)
                => \A k \in 1..NumOptions :
                      /\ Voters(StoredOptions(meeting', p)[k])
                            = Voters(StoredOptions(Resolved("M"), p)[k])
                      /\ StoredOptions(meeting', p)[k].count
                            = StoredOptions(Resolved("M"), p)[k].count]_vars

\* a vote was relayed, and the stored poll holds both users: the one in the
\* list of an option after the other, or each in the list of an option of its own
C38_Witness ==
    /\ Len(emitted) = 1
    /\ emitted[1].ev = "poll-voted"
    /\ \E p \in PollIds :
          /\ VotedOptions(meeting, p, HostUser) # {}
          /\ VotedOptions(meeting, p, GuestUser) # {}
          /\ \E k \in 1..NumOptions : VotedFor(meeting, p, emitted[1].userId, k)

\* ------------------------------------------------------------------ C39
\* C39: every option of every stored poll has a count equal to the number of
\* userIds in its voter set, and a voter list that holds no userId twice.
C39_CountMatchesVoters ==
    \A i \in 1..Len(meeting.messages) :
        meeting.messages[i].type = "poll" =>
            \A k \in 1..Len(meeting.messages[i].options) :
                LET option == meeting.messages[i].options[k]
                IN  /\ option.count = Cardinality(Voters(option))
                    /\ Len(option.votes) = Cardinality(Voters(option))

\* after a vote-poll event on a stored poll, with any optionIndex, every count
\* of that poll is the length of its voter list
C39_AfterAnyVote ==
    [][\A c \in ConnIds, p \in PollIds, u \in Users, o \in OptionIndexes :
          (Found("M") /\ PollIndex(Resolved("M"), p) # 0 /\ VotePoll(c, "M", p, u, o))
          => \A k \in 1..NumOptions :
                StoredOptions(meeting', p)[k].count
                    = Len(StoredOptions(meeting', p)[k].votes)]_vars
====
